---------------------------- MODULE Spec2Model ----------------------------
(***************************************************************************)
(* TradeMind: whale tracker, gem score calculator and gem de-duplication,  *)
(* modelled from the Python sources.                                       *)
(*                                                                         *)
(* Conventions                                                             *)
(*   - Python None is the string None ("None") where a string is expected. *)
(*   - Money is kept in whole USD for the whale tracker.                   *)
(*   - An exception leaving a method is the outcome "raised".              *)
(***************************************************************************)
EXTENDS Integers, Sequences, FiniteSets, TLC

VARIABLES
    \* ---- WhaleTracker instance (whale_tracker.py:12-20)
    exchange_addresses,     \* address -> exchange name
    whale_threshold_usd,
    known_transactions,     \* set of hashes
    \* ---- the last scan call on the tracker and the history of what was returned
    scan,                   \* [op, fetched, price, known_before, outcome, whale_transactions]
    emitted,                \* hash -> number of times it was in a returned list
    \* ---- the last classify_transaction call
    classified,             \* [called, tx, outcome, classification]
    \* ---- GemScoreCalculator instance (score_calculator.py:12-32) and its last call
    weights,                \* [social, onchain, dev, liquidity, holder], hundredths
    coin_data,              \* the record the last call scored
    breakdown,              \* what the last call returned
    \* ---- the last evaluation of the grade and recommendation ladders
    ladder,
    \* ---- the last _deduplicate_gems call
    dedup,
    \* ---- GemFinder instance (gem_finder.py:13-33), the data its provider
    \* ---- serves, and its last call
    processed_coins,        \* set of coin ids
    provider,               \* [trending, markets, details]
    finder,                 \* [op, processed_before, outcome, gems, fetches]
    \* ---- the last _is_gem_candidate call
    candidate,
    \* ---- one provider client instance (coingecko.py:15-20, bscscan.py:14-19),
    \* ---- the clock it reads and the position of its current request
    client,
    \* ---- one run of the whale-tracking entry point (quick_start.py:17-64)
    startup

vars == <<exchange_addresses, whale_threshold_usd, known_transactions, scan,
          emitted, classified, weights, coin_data, breakdown, ladder, dedup,
          processed_coins, provider, finder, candidate, client, startup>>

finderVars == <<processed_coins, provider, finder, candidate>>

\* The components added after the tracker, the calculator and the two pure
\* function harnesses.
entryVars == <<client, startup>>

restVars == <<finderVars, entryVars>>

calcVars == <<weights, coin_data, breakdown>>

whaleVars == <<exchange_addresses, whale_threshold_usd, known_transactions,
               scan, emitted>>

(***************************************************************************)
(* Bounds of the model.                                                    *)
(***************************************************************************)
MaxFetch == 2      \* longest transfer list one scan fetches

None == "None"

(***************************************************************************)
(* Addresses.  "0xAA" and "0xBb" are the checksummed (mixed-case)          *)
(* spellings of "0xaa" and "0xbb"; str.lower() maps them to the lowercase  *)
(* spelling.                                                               *)
(***************************************************************************)
Addresses == {"0xaa", "0xAA", "0xbb", "0xBb", "0xc1", "0xd2"}

Lower(a) ==
    CASE a = "0xAA" -> "0xaa"
      [] a = "0xBb" -> "0xbb"
      [] OTHER -> a

\* Exchange tables a tracker is constructed with: the default {} and tables of
\* lowercase addresses (config/settings.py EXCHANGE_ADDRESSES).
EmptyTable == [a \in {} |-> None]

ExchangeTables ==
    { EmptyTable,
      [a \in {"0xaa"} |-> "Binance"],
      [a \in {"0xbb"} |-> "OKEx"],
      [a \in {"0xaa", "0xbb"} |-> IF a = "0xaa" THEN "Binance" ELSE "OKEx"] }

\* dict.get(key): the value, or None when the key is absent.
DictGet(d, k) == IF k \in DOMAIN d THEN d[k] ELSE None

\* Python truth value of an Optional[str].
Truthy(x) == x # None /\ x # ""

(***************************************************************************)
(* WhaleTracker.is_exchange_address / classify_transaction                 *)
(***************************************************************************)
\* address.lower() raises AttributeError when the address is None.
LowerRaises(address) == address = None

\* Variant: the lookup without address.lower().
is_exchange_address_case_sensitive(table, address) == DictGet(table, address)

is_exchange_address(table, address) == DictGet(table, Lower(address))

classify_raises(tx) == LowerRaises(tx.from_address) \/ LowerRaises(tx.to_address)

classify_transaction(table, tx) ==
    LET from_exchange == is_exchange_address(table, tx.from_address)
        to_exchange == is_exchange_address(table, tx.to_address)
        base == [from_exchange |-> from_exchange, to_exchange |-> to_exchange]
    IN  IF Truthy(from_exchange) /\ ~Truthy(to_exchange)
        THEN base @@ [direction |-> "EXCHANGE_OUTFLOW", risk_level |-> "HIGH"]
        ELSE IF ~Truthy(from_exchange) /\ Truthy(to_exchange)
        THEN base @@ [direction |-> "EXCHANGE_INFLOW", risk_level |-> "HIGH"]
        ELSE IF Truthy(from_exchange) /\ Truthy(to_exchange)
        THEN base @@ [direction |-> "EXCHANGE_TO_EXCHANGE", risk_level |-> "LOW"]
        ELSE base @@ [direction |-> "WALLET_TO_WALLET", risk_level |-> "MEDIUM"]

NoClassification ==
    [from_exchange |-> None, to_exchange |-> None, direction |-> None,
     risk_level |-> None]

(***************************************************************************)
(* BSCScanClient.parse_transaction: the raw transfer records of the        *)
(* provider.  value is the integer the "value" string holds; numeric says  *)
(* whether every int(...) conversion of the record succeeds.               *)
(***************************************************************************)
RawTransfers ==
    { [hash |-> "h1", from |-> "0xaa", to |-> "0xc1", value |-> 2000000,
       tokenDecimal |-> 1, numeric |-> TRUE],
      [hash |-> "h2", from |-> "0xc1", to |-> "0xBb", value |-> 50000,
       tokenDecimal |-> 0, numeric |-> TRUE],
      [hash |-> "h3", from |-> "0xaa", to |-> "0xc1", value |-> 0,
       tokenDecimal |-> 0, numeric |-> FALSE],
      [hash |-> "h4", from |-> None, to |-> "0xbb", value |-> 200000,
       tokenDecimal |-> 0, numeric |-> TRUE] }

Hashes == {r.hash : r \in RawTransfers}

RECURSIVE Pow10(_)
Pow10(n) == IF n = 0 THEN 1 ELSE 10 * Pow10(n - 1)

\* value_tokens = value_wei / 10 ** decimals is kept as the pair
\* (value_raw, decimals): the quotient is not an integer in general.
parse_transaction(tx) ==
    IF ~tx.numeric
    THEN [parsed |-> FALSE, hash |-> tx.hash, from_address |-> tx.from,
          to_address |-> tx.to, value_raw |-> 0, decimals |-> 0]
    ELSE [parsed |-> TRUE, hash |-> tx.hash, from_address |-> tx.from,
          to_address |-> tx.to, value_raw |-> tx.value,
          decimals |-> tx.tokenDecimal]

\* Variant: strictly above the threshold.
is_whale_transaction_strict(tx, token_price_usd, threshold) ==
    tx.value_raw * token_price_usd > threshold * Pow10(tx.decimals)

\* usd_value = value_tokens * token_price_usd; usd_value >= whale_threshold_usd,
\* with both sides multiplied by 10 ** decimals.
is_whale_transaction(tx, token_price_usd, threshold) ==
    tx.value_raw * token_price_usd >= threshold * Pow10(tx.decimals)

TokenPrices == {1, 2}
Thresholds == {100000, 500000}

(***************************************************************************)
(* BSCScanClient._make_sync_request / _make_request: what the provider     *)
(* answers.  Only HTTP 200 with envelope status "1" hands the result on.   *)
(***************************************************************************)
ResponseKinds == {"ok", "api_error", "http_error", "network_error"}

request_raises(kind) == kind # "ok"

(***************************************************************************)
(* The scan loop, lines 96-105 (sync) and 71-80 (async): acc is            *)
(* [whales, known, raised].                                                *)
(***************************************************************************)
Enriched(tx, table, price) ==
    [hash |-> tx.hash, from_address |-> tx.from_address,
     to_address |-> tx.to_address, value_raw |-> tx.value_raw,
     decimals |-> tx.decimals,
     classification |-> classify_transaction(table, tx),
     usd_raw |-> tx.value_raw * price]

\* Variant: the loop body without known_transactions.add(tx['hash']).
sync_step_without_add(acc, tx_data, price, table, threshold) ==
    LET tx == parse_transaction(tx_data)
    IN  IF acc.raised THEN acc
        ELSE IF ~tx.parsed \/ tx.hash \in acc.known THEN acc
        ELSE IF is_whale_transaction(tx, price, threshold)
        THEN IF classify_raises(tx)
             THEN [acc EXCEPT !.raised = TRUE]
             ELSE [acc EXCEPT !.whales = Append(@, Enriched(tx, table, price))]
        ELSE acc

\* Variant: the loop body marks as seen every parsed transfer it looks at,
\* whale or not.
sync_step_marks_all(acc, tx_data, price, table, threshold) ==
    LET tx == parse_transaction(tx_data)
    IN  IF acc.raised THEN acc
        ELSE IF ~tx.parsed \/ tx.hash \in acc.known THEN acc
        ELSE IF is_whale_transaction(tx, price, threshold)
        THEN IF classify_raises(tx)
             THEN [acc EXCEPT !.raised = TRUE]
             ELSE [acc EXCEPT !.whales = Append(@, Enriched(tx, table, price)),
                              !.known = @ \cup {tx.hash}]
        ELSE [acc EXCEPT !.known = @ \cup {tx.hash}]

sync_step(acc, tx_data, price, table, threshold) ==
    LET tx == parse_transaction(tx_data)
    IN  IF acc.raised THEN acc
        ELSE IF ~tx.parsed \/ tx.hash \in acc.known THEN acc
        ELSE IF is_whale_transaction(tx, price, threshold)
        THEN IF classify_raises(tx)
             THEN [acc EXCEPT !.raised = TRUE]
             ELSE [acc EXCEPT !.whales = Append(@, Enriched(tx, table, price)),
                              !.known = @ \cup {tx.hash}]
        ELSE acc

RECURSIVE sync_loop(_, _, _, _, _)
sync_loop(acc, transactions, price, table, threshold) ==
    IF transactions = << >> THEN acc
    ELSE sync_loop(sync_step(acc, Head(transactions), price, table, threshold),
                   Tail(transactions), price, table, threshold)

\* Variant: the asynchronous loop body without the known_transactions test.
async_step_without_known_test(acc, tx_data, price, table, threshold) ==
    LET tx == parse_transaction(tx_data)
    IN  IF acc.raised THEN acc
        ELSE IF ~tx.parsed THEN acc
        ELSE IF is_whale_transaction(tx, price, threshold)
        THEN IF classify_raises(tx)
             THEN [acc EXCEPT !.raised = TRUE]
             ELSE [acc EXCEPT !.whales = Append(@, Enriched(tx, table, price)),
                              !.known = @ \cup {tx.hash}]
        ELSE acc

async_step(acc, tx_data, price, table, threshold) ==
    LET tx == parse_transaction(tx_data)
    IN  IF acc.raised THEN acc
        ELSE IF ~tx.parsed \/ tx.hash \in acc.known THEN acc
        ELSE IF is_whale_transaction(tx, price, threshold)
        THEN IF classify_raises(tx)
             THEN [acc EXCEPT !.raised = TRUE]
             ELSE [acc EXCEPT !.whales = Append(@, Enriched(tx, table, price)),
                              !.known = @ \cup {tx.hash}]
        ELSE acc

RECURSIVE async_loop(_, _, _, _, _)
async_loop(acc, transactions, price, table, threshold) ==
    IF transactions = << >> THEN acc
    ELSE async_loop(async_step(acc, Head(transactions), price, table, threshold),
                    Tail(transactions), price, table, threshold)

FetchedLists ==
    UNION {[1..n -> RawTransfers] : n \in 0..MaxFetch}

NoScan ==
    [op |-> "none", response |-> "ok", fetched |-> << >>, price |-> 1,
     known_before |-> {}, outcome |-> "none", whale_transactions |-> << >>]

\* The hashes of a returned list, with multiplicity.
RECURSIVE CountIn(_, _)
CountIn(h, whales) ==
    IF whales = << >> THEN 0
    ELSE (IF Head(whales).hash = h THEN 1 ELSE 0) + CountIn(h, Tail(whales))

\* The effect of one finished scan on the tracker and on the history.
ScanEffect(op, response, fetched, price, acc) ==
    LET failed == request_raises(response) \/ acc.raised
        returned == IF failed THEN << >> ELSE acc.whales
    IN  /\ known_transactions' =
               IF request_raises(response) THEN known_transactions ELSE acc.known
        /\ scan' = [op |-> op, response |-> response, fetched |-> fetched,
                    price |-> price, known_before |-> known_transactions,
                    outcome |-> IF failed THEN "raised" ELSE "returned",
                    whale_transactions |-> returned]
        /\ emitted' = [h \in Hashes |-> emitted[h] + CountIn(h, returned)]
        /\ UNCHANGED <<exchange_addresses, whale_threshold_usd, classified,
                       calcVars, ladder, dedup, restVars>>

StartAcc == [whales |-> << >>, known |-> known_transactions, raised |-> FALSE]

FailedResponses == {k \in ResponseKinds : request_raises(k)}

scan_recent_transactions_sync ==
    \/ \E response \in FailedResponses :
            ScanEffect("sync", response, << >>, 1, StartAcc)
    \/ \E fetched \in FetchedLists, price \in TokenPrices :
            ScanEffect("sync", "ok", fetched, price,
                       sync_loop(StartAcc, fetched, price, exchange_addresses,
                                 whale_threshold_usd))

scan_recent_transactions ==
    \/ \E response \in FailedResponses :
            ScanEffect("async", response, << >>, 1, StartAcc)
    \/ \E fetched \in FetchedLists, price \in TokenPrices :
            ScanEffect("async", "ok", fetched, price,
                       async_loop(StartAcc, fetched, price, exchange_addresses,
                                  whale_threshold_usd))

(***************************************************************************)
(* classify_transaction applied to any pair of addresses.                  *)
(***************************************************************************)
TxAddresses == Addresses \cup {None}

ClassifyCall ==
    \E f \in TxAddresses, t \in TxAddresses :
        LET tx == [from_address |-> f, to_address |-> t]
        IN  /\ classified' =
                  IF classify_raises(tx)
                  THEN [called |-> TRUE, from_address |-> f, to_address |-> t,
                        outcome |-> "raised", classification |-> NoClassification]
                  ELSE [called |-> TRUE, from_address |-> f, to_address |-> t,
                        outcome |-> "returned",
                        classification |-> classify_transaction(exchange_addresses, tx)]
            /\ UNCHANGED <<whaleVars, calcVars, ladder, dedup, restVars>>

(***************************************************************************)
(* GemScoreCalculator.                                                     *)
(*                                                                         *)
(* Units: market_cap, total_volume and the supplies in thousands;          *)
(* prices in cents; percentage changes in tenths of a percent; every score *)
(* in hundredths of a point (risk, inside calculate_risk_score, in whole   *)
(* points).  A float quotient a / b compared with a decimal literal is     *)
(* compared by cross-multiplication.  The counters fed to math.log10 are   *)
(* powers of ten, where Log10 below is exact.                              *)
(*                                                                         *)
(* coin.nulls is the set of fields whose value is None: comparing or       *)
(* doing arithmetic on None raises TypeError inside the sub-score.         *)
(***************************************************************************)
Null(c, f) == f \in c.nulls

RECURSIVE Log10(_)
Log10(n) == IF n < 10 THEN 0 ELSE 1 + Log10(n \div 10)

Min(a, b) == IF a <= b THEN a ELSE b
Max(a, b) == IF a >= b THEN a ELSE b
Abs(a) == IF a < 0 THEN -a ELSE a

\* round(num / den, 2) of a quotient given in hundredths: the nearest integer,
\* an exact tie to the even one (\div and % round towards minus infinity).
Round2(num, den) ==
    LET q == num \div den
        r == num % den
    IN  IF 2 * r > den THEN q + 1
        ELSE IF 2 * r = den THEN q + (q % 2)
        ELSE q

\* ---- calculate_social_score
social_raises(c) ==
    \/ Null(c, "twitter_followers")
    \/ Null(c, "reddit_subscribers")
    \/ (c.reddit_subscribers > 0 /\ Null(c, "reddit_active_users_48h"))
    \/ Null(c, "telegram_users")
    \/ Null(c, "facebook_likes")

calculate_social_score(c) ==
    IF social_raises(c) THEN 0
    ELSE LET twitter == IF c.twitter_followers > 0
                        THEN Min(4000, Log10(Max(c.twitter_followers, 1)) * 800)
                        ELSE 0
             reddit == IF c.reddit_subscribers > 0
                       THEN Min(2000, Log10(Max(c.reddit_subscribers, 1)) * 400)
                            + (IF c.reddit_active_users_48h > 0
                               THEN Min(1000, (c.reddit_active_users_48h * 20000)
                                               \div c.reddit_subscribers)
                               ELSE 0)
                       ELSE 0
             telegram == IF c.telegram_users > 0
                         THEN Min(2000, Log10(Max(c.telegram_users, 1)) * 400)
                         ELSE 0
             facebook == IF c.facebook_likes > 0
                         THEN Min(1000, Log10(Max(c.facebook_likes, 1)) * 200)
                         ELSE 0
         IN  Min(twitter + reddit + telegram + facebook, 10000)

\* ---- calculate_onchain_score
onchain_raises(c) ==
    \/ Null(c, "market_cap")
    \/ Null(c, "total_volume")
    \/ Null(c, "price_change_percentage_7d")
    \/ Null(c, "circulating_supply")
    \/ (c.circulating_supply > 0 /\ Null(c, "total_supply"))
    \/ Null(c, "current_price")
    \/ (c.current_price > 0 /\ Null(c, "ath"))

onchain_market_cap_band(c) ==
    IF c.market_cap > 0
    THEN IF 10000 <= c.market_cap /\ c.market_cap <= 50000 THEN 3000
         ELSE IF 5000 <= c.market_cap /\ c.market_cap < 10000 THEN 2500
         ELSE IF 1000 <= c.market_cap /\ c.market_cap < 5000 THEN 2000
         ELSE IF 50000 < c.market_cap /\ c.market_cap <= 100000 THEN 1500
         ELSE 1000
    ELSE 0

\* Variant: the turnover ladder entered without the volume guard.
onchain_turnover_band_unguarded(c) ==
    IF c.market_cap > 0
    THEN IF 5 * c.total_volume > c.market_cap THEN 2500
         ELSE IF 10 * c.total_volume > c.market_cap THEN 2000
         ELSE IF 20 * c.total_volume > c.market_cap THEN 1500
         ELSE IF 50 * c.total_volume > c.market_cap THEN 1000
         ELSE 500
    ELSE 0

\* Variant: the turnover thresholds taken inclusively.
onchain_turnover_band_inclusive(c) ==
    IF c.total_volume > 0 /\ c.market_cap > 0
    THEN IF 5 * c.total_volume >= c.market_cap THEN 2500
         ELSE IF 10 * c.total_volume >= c.market_cap THEN 2000
         ELSE IF 20 * c.total_volume >= c.market_cap THEN 1500
         ELSE IF 50 * c.total_volume >= c.market_cap THEN 1000
         ELSE 500
    ELSE 0

onchain_turnover_band(c) ==
    IF c.total_volume > 0 /\ c.market_cap > 0
    THEN IF 5 * c.total_volume > c.market_cap THEN 2500        \* ratio > 0.2
         ELSE IF 10 * c.total_volume > c.market_cap THEN 2000  \* ratio > 0.1
         ELSE IF 20 * c.total_volume > c.market_cap THEN 1500  \* ratio > 0.05
         ELSE IF 50 * c.total_volume > c.market_cap THEN 1000  \* ratio > 0.02
         ELSE 500
    ELSE 0

onchain_change_band(c) ==
    LET d == c.price_change_percentage_7d
    IN  IF 0 <= d /\ d <= 500 THEN 2000
        ELSE IF -200 <= d /\ d < 0 THEN 1500
        ELSE IF 500 < d /\ d <= 1000 THEN 1000
        ELSE 500

onchain_supply_band(c) ==
    IF c.circulating_supply > 0 /\ c.total_supply > 0
    THEN IF 5 * c.circulating_supply > 4 * c.total_supply THEN 1500   \* > 0.8
         ELSE IF 2 * c.circulating_supply > c.total_supply THEN 1000  \* > 0.5
         ELSE 500
    ELSE 0

onchain_ath_band(c) ==
    IF c.current_price > 0 /\ c.ath > 0
    THEN LET gap == c.ath - c.current_price
         IN  IF 5 * gap < c.ath THEN 500                \* distance < 0.2
             ELSE IF 2 * gap < c.ath THEN 1000          \* 0.2 <= distance < 0.5
             ELSE IF 5 * gap < 4 * c.ath THEN 800       \* 0.5 <= distance < 0.8
             ELSE 500
    ELSE 0

calculate_onchain_score(c) ==
    IF onchain_raises(c) THEN 0
    ELSE Min(onchain_market_cap_band(c) + onchain_turnover_band(c)
             + onchain_change_band(c) + onchain_supply_band(c)
             + onchain_ath_band(c), 10000)

\* ---- calculate_development_score
development_raises(c) ==
    \/ Null(c, "github_commits_4w")
    \/ Null(c, "github_stars")
    \/ Null(c, "github_forks")
    \/ Null(c, "github_issues")
    \/ Null(c, "github_pull_requests")

calculate_development_score(c) ==
    IF development_raises(c) THEN 0
    ELSE LET commits == IF c.github_commits_4w > 0
                        THEN IF c.github_commits_4w >= 100 THEN 4000
                             ELSE IF c.github_commits_4w >= 50 THEN 3000
                             ELSE IF c.github_commits_4w >= 20 THEN 2000
                             ELSE IF c.github_commits_4w >= 5 THEN 1000
                             ELSE 500
                        ELSE 0
             stars == IF c.github_stars > 0
                      THEN Min(2000, Log10(Max(c.github_stars, 1)) * 500)
                      ELSE 0
             forks == IF c.github_forks > 0
                      THEN Min(1500, Log10(Max(c.github_forks, 1)) * 375)
                      ELSE 0
             issues == IF c.github_issues > 0
                       THEN IF c.github_issues >= 100 THEN 1500
                            ELSE IF c.github_issues >= 50 THEN 1000
                            ELSE IF c.github_issues >= 20 THEN 700
                            ELSE 300
                       ELSE 0
             pulls == IF c.github_pull_requests > 0
                      THEN IF c.github_pull_requests >= 50 THEN 1000
                           ELSE IF c.github_pull_requests >= 20 THEN 700
                           ELSE IF c.github_pull_requests >= 10 THEN 500
                           ELSE 200
                      ELSE 0
         IN  Min(commits + stars + forks + issues + pulls, 10000)

\* ---- calculate_liquidity_score
liquidity_early_return(c) == c.market_cap <= 0 \/ c.total_volume <= 0

liquidity_raises(c) ==
    \/ Null(c, "market_cap")
    \/ (c.market_cap > 0 /\ Null(c, "total_volume"))
    \/ /\ ~liquidity_early_return(c)
       /\ \/ Null(c, "high_24h")
          \/ (c.high_24h > 0 /\ Null(c, "low_24h"))
          \/ (c.high_24h > 0 /\ c.low_24h > 0 /\ Null(c, "current_price"))

calculate_liquidity_score(c) ==
    IF liquidity_raises(c) THEN 0
    ELSE IF liquidity_early_return(c) THEN 0
    ELSE LET v == c.total_volume
             m == c.market_cap
             ratio == IF 10 * v >= 3 * m THEN 5000       \* >= 0.3
                      ELSE IF 5 * v >= m THEN 4500       \* >= 0.2
                      ELSE IF 10 * v >= m THEN 4000      \* >= 0.1
                      ELSE IF 20 * v >= m THEN 3000      \* >= 0.05
                      ELSE IF 50 * v >= m THEN 2000      \* >= 0.02
                      ELSE IF 100 * v >= m THEN 1000     \* >= 0.01
                      ELSE 500
             absolute == IF v >= 10000 THEN 2500
                         ELSE IF v >= 5000 THEN 2000
                         ELSE IF v >= 1000 THEN 1500
                         ELSE IF v >= 500 THEN 1000
                         ELSE IF v >= 100 THEN 500
                         ELSE 200
             gap == c.high_24h - c.low_24h
             spread == IF c.high_24h > 0 /\ c.low_24h > 0 /\ c.current_price > 0
                       THEN IF 20 * gap <= c.current_price THEN 2500       \* <= 0.05
                            ELSE IF 10 * gap <= c.current_price THEN 2000  \* <= 0.1
                            ELSE IF 5 * gap <= c.current_price THEN 1500   \* <= 0.2
                            ELSE IF 10 * gap <= 3 * c.current_price THEN 1000
                            ELSE 500
                       ELSE 0
         IN  Min(ratio + absolute + spread, 10000)

\* ---- calculate_holder_score
holder_raises(c) ==
    \/ Null(c, "market_cap")
    \/ (c.market_cap > 0 /\ Null(c, "total_volume"))

holder_fallback == 5000

calculate_holder_score(c) ==
    IF holder_raises(c) THEN holder_fallback
    ELSE IF c.market_cap > 0 /\ c.total_volume > 0
    THEN LET v == c.total_volume
             m == c.market_cap
         IN  \* hodl_ratio = 1 - min(v / m, 1)
             IF 5 * v < m THEN 8000             \* hodl_ratio > 0.8
             ELSE IF 5 * v < 2 * m THEN 7000    \* hodl_ratio > 0.6
             ELSE IF 5 * v < 3 * m THEN 6000    \* hodl_ratio > 0.4
             ELSE IF 5 * v < 4 * m THEN 4000    \* hodl_ratio > 0.2
             ELSE 2000
    ELSE 5000

\* ---- calculate_momentum_score
momentum_raises(c) ==
    \/ Null(c, "price_change_percentage_24h")
    \/ Null(c, "price_change_percentage_7d")

calculate_momentum_score(c) ==
    IF momentum_raises(c) THEN 5000
    ELSE LET d1 == c.price_change_percentage_24h
             d7 == c.price_change_percentage_7d
             short == IF d1 > 100 THEN 2000
                      ELSE IF d1 > 50 THEN 1500
                      ELSE IF d1 > 0 THEN 1000
                      ELSE IF d1 > -50 THEN -500
                      ELSE IF d1 > -100 THEN -1000
                      ELSE -2000
             medium == IF d7 > 500 THEN 3000
                       ELSE IF d7 > 200 THEN 2500
                       ELSE IF d7 > 100 THEN 2000
                       ELSE IF d7 > 0 THEN 1500
                       ELSE IF d7 > -100 THEN -1000
                       ELSE IF d7 > -200 THEN -1500
                       ELSE -2500
         IN  Max(0, Min(5000 + short + medium, 10000))

\* ---- calculate_trend_score
trend_raises(c) ==
    \/ Null(c, "current_price")
    \/ (c.current_price > 0 /\ Null(c, "ath"))

calculate_trend_score(c) ==
    IF trend_raises(c) THEN 5000
    ELSE LET d30 == c.price_change_percentage_30d
             long == IF Null(c, "price_change_percentage_30d") \/ d30 = 0 THEN 0
                     ELSE IF d30 > 1000 THEN 3000
                     ELSE IF d30 > 500 THEN 2500
                     ELSE IF d30 > 200 THEN 2000
                     ELSE IF d30 > 0 THEN 1500
                     ELSE -Abs(d30)              \* abs(change_30d) / 10 points
             ath == IF c.current_price > 0 /\ c.ath > 0
                    THEN IF 5 * c.current_price > 4 * c.ath THEN 2000   \* > 0.8
                         ELSE IF 2 * c.current_price > c.ath THEN 1500  \* > 0.5
                         ELSE IF 5 * c.current_price > c.ath THEN 1000  \* > 0.2
                         ELSE 500
                    ELSE 0
         IN  Max(0, Min(5000 + long + ath, 10000))

\* ---- calculate_risk_score (whole points)
risk_raises(c) ==
    \/ Null(c, "market_cap")
    \/ Null(c, "price_change_percentage_7d")
    \/ Null(c, "total_volume")
    \/ Null(c, "twitter_followers")
    \/ (c.twitter_followers < 5000 /\ Null(c, "reddit_subscribers"))
    \/ Null(c, "github_commits_4w")

\* Variant: the sum kept below 100.
calculate_risk_score_below_100(c) ==
    IF risk_raises(c) THEN 50
    ELSE LET cap == IF c.market_cap < 1000 THEN 30
                    ELSE IF c.market_cap < 10000 THEN 20
                    ELSE IF c.market_cap < 50000 THEN 10
                    ELSE 0
             d7 == Abs(c.price_change_percentage_7d)
             volatility == IF d7 > 1000 THEN 25
                           ELSE IF d7 > 500 THEN 15
                           ELSE IF d7 > 200 THEN 10
                           ELSE 0
             volume == IF c.total_volume < 100 THEN 20
                       ELSE IF c.total_volume < 500 THEN 15
                       ELSE IF c.total_volume < 1000 THEN 10
                       ELSE 0
             social == IF c.twitter_followers < 1000 /\ c.reddit_subscribers < 1000
                       THEN 15
                       ELSE IF c.twitter_followers < 5000 /\ c.reddit_subscribers < 5000
                       THEN 10
                       ELSE 0
             development == IF c.github_commits_4w = 0 THEN 10
                            ELSE IF c.github_commits_4w < 5 THEN 5
                            ELSE 0
         IN  Min(cap + volatility + volume + social + development, 95)

calculate_risk_score(c) ==
    IF risk_raises(c) THEN 50
    ELSE LET cap == IF c.market_cap < 1000 THEN 30
                    ELSE IF c.market_cap < 10000 THEN 20
                    ELSE IF c.market_cap < 50000 THEN 10
                    ELSE 0
             d7 == Abs(c.price_change_percentage_7d)
             volatility == IF d7 > 1000 THEN 25
                           ELSE IF d7 > 500 THEN 15
                           ELSE IF d7 > 200 THEN 10
                           ELSE 0
             volume == IF c.total_volume < 100 THEN 20
                       ELSE IF c.total_volume < 500 THEN 15
                       ELSE IF c.total_volume < 1000 THEN 10
                       ELSE 0
             social == IF c.twitter_followers < 1000 /\ c.reddit_subscribers < 1000
                       THEN 15
                       ELSE IF c.twitter_followers < 5000 /\ c.reddit_subscribers < 5000
                       THEN 10
                       ELSE 0
             development == IF c.github_commits_4w = 0 THEN 10
                            ELSE IF c.github_commits_4w < 5 THEN 5
                            ELSE 0
         IN  Min(cap + volatility + volume + social + development, 100)

(***************************************************************************)
(* _score_to_grade and _score_to_recommendation.  The score is the         *)
(* quotient num / den (den > 0), the risk score is in whole points.        *)
(***************************************************************************)
\* Variant: the first rung with > in place of >=.
_score_to_grade_strict_top(num, den) ==
    IF num > 90 * den THEN "A+"
    ELSE IF num >= 85 * den THEN "A"
    ELSE IF num >= 80 * den THEN "A-"
    ELSE IF num >= 75 * den THEN "B+"
    ELSE IF num >= 70 * den THEN "B"
    ELSE IF num >= 65 * den THEN "B-"
    ELSE IF num >= 60 * den THEN "C+"
    ELSE IF num >= 55 * den THEN "C"
    ELSE IF num >= 50 * den THEN "C-"
    ELSE IF num >= 40 * den THEN "D"
    ELSE "F"

_score_to_grade(num, den) ==
    IF num >= 90 * den THEN "A+"
    ELSE IF num >= 85 * den THEN "A"
    ELSE IF num >= 80 * den THEN "A-"
    ELSE IF num >= 75 * den THEN "B+"
    ELSE IF num >= 70 * den THEN "B"
    ELSE IF num >= 65 * den THEN "B-"
    ELSE IF num >= 60 * den THEN "C+"
    ELSE IF num >= 55 * den THEN "C"
    ELSE IF num >= 50 * den THEN "C-"
    ELSE IF num >= 40 * den THEN "D"
    ELSE "F"

\* Variant: the labels of the two score-only rungs exchanged.
_score_to_recommendation_exchanged(num, den, risk_score) ==
    IF num >= 85 * den /\ risk_score <= 30 THEN "STRONG_BUY"
    ELSE IF num >= 75 * den /\ risk_score <= 40 THEN "BUY"
    ELSE IF num >= 65 * den /\ risk_score <= 50 THEN "MODERATE_BUY"
    ELSE IF num >= 55 * den THEN "WEAK_HOLD"
    ELSE IF num >= 45 * den THEN "HOLD_WATCH"
    ELSE "AVOID"

\* Variant: the first rung with "or" in place of "and".
_score_to_recommendation_either(num, den, risk_score) ==
    IF num >= 85 * den \/ risk_score <= 30 THEN "STRONG_BUY"
    ELSE IF num >= 75 * den /\ risk_score <= 40 THEN "BUY"
    ELSE IF num >= 65 * den /\ risk_score <= 50 THEN "MODERATE_BUY"
    ELSE IF num >= 55 * den THEN "HOLD_WATCH"
    ELSE IF num >= 45 * den THEN "WEAK_HOLD"
    ELSE "AVOID"

_score_to_recommendation(num, den, risk_score) ==
    IF num >= 85 * den /\ risk_score <= 30 THEN "STRONG_BUY"
    ELSE IF num >= 75 * den /\ risk_score <= 40 THEN "BUY"
    ELSE IF num >= 65 * den /\ risk_score <= 50 THEN "MODERATE_BUY"
    ELSE IF num >= 55 * den THEN "HOLD_WATCH"
    ELSE IF num >= 45 * den THEN "WEAK_HOLD"
    ELSE "AVOID"

_default_score ==
    [outcome |-> "returned", total_score |-> 0, risk_adjusted_score |-> 0,
     social_score |-> 0, onchain_score |-> 0, development_score |-> 0,
     liquidity_score |-> 0, holder_score |-> 0, momentum_score |-> 0,
     trend_score |-> 0, risk_score |-> 10000, grade |-> "F",
     recommendation |-> "AVOID"]

(***************************************************************************)
(* calculate_comprehensive_score.  total is kept as total4 = the sum of    *)
(* score (hundredths) * weight (hundredths), i.e. in 1/10000 of a point;   *)
(* the risk-adjusted score is risk_adjusted_num / (200 * 10000) points.    *)
(*                                                                         *)
(* total_score and risk_adjusted_score are binary floats: the sum of       *)
(* products and the product by (1 - risk / 200) are rounded, so the float  *)
(* is the exact value or a neighbour just below or above it.  Which one is *)
(* not determined at this level: the float is the exact value num / den    *)
(* moved by e \in FloatErrors to (2 * num + e) / (2 * den), a change too   *)
(* small to cross anything but an exact threshold or an exact rounding     *)
(* tie.  Multiplying by 1.0 (risk 0) is exact: then both share one error.  *)
(***************************************************************************)
FloatErrors == {-1, 0, 1}

Float(num, e) == 2 * num + e

weighted_total(w, social, onchain, dev, liquidity, holder) ==
    social * w.social + onchain * w.onchain + dev * w.dev
    + liquidity * w.liquidity + holder * w.holder

\* Variant: total_score * (1 + risk_score / 200), times 200
risk_adjusted_num_raised(total4, risk_score) == total4 * (200 + risk_score)

\* total_score * (1 - risk_score / 200), times 200
risk_adjusted_num(total4, risk_score) == total4 * (200 - risk_score)

\* Variant: an error inside any sub-score reaches the handler at lines 80-82.
aggregation_raises_on_sub_score_error(w, c) ==
    \/ social_raises(c) \/ onchain_raises(c) \/ development_raises(c)
    \/ liquidity_raises(c) \/ holder_raises(c) \/ momentum_raises(c)
    \/ trend_raises(c) \/ risk_raises(c)

\* Arithmetic on the floats the sub-scores return and on numeric weights does
\* not raise: the handler at lines 80-82 is not entered.
aggregation_raises(w, c) == FALSE

calculate_comprehensive_score(w, c, e_total, e_adjusted) ==
    IF aggregation_raises(w, c) THEN _default_score
    ELSE
    LET social_score == calculate_social_score(c)
        onchain_score == calculate_onchain_score(c)
        dev_score == calculate_development_score(c)
        liquidity_score == calculate_liquidity_score(c)
        holder_score == calculate_holder_score(c)
        total4 == weighted_total(w, social_score, onchain_score, dev_score,
                                 liquidity_score, holder_score)
        momentum_score == calculate_momentum_score(c)
        trend_score == calculate_trend_score(c)
        risk_score == calculate_risk_score(c)
        total_score == Float(total4, e_total)                          \* / 200
        risk_adjusted_score ==
            Float(risk_adjusted_num(total4, risk_score), e_adjusted)   \* / 40000
    IN  [outcome |-> "returned",
         total_score |-> Round2(total_score, 200),
         risk_adjusted_score |-> Round2(risk_adjusted_score, 40000),
         social_score |-> Round2(social_score, 1),
         onchain_score |-> Round2(onchain_score, 1),
         development_score |-> Round2(dev_score, 1),
         liquidity_score |-> Round2(liquidity_score, 1),
         holder_score |-> Round2(holder_score, 1),
         momentum_score |-> Round2(momentum_score, 1),
         trend_score |-> Round2(trend_score, 1),
         risk_score |-> Round2(risk_score * 100, 1),
         grade |-> _score_to_grade(risk_adjusted_score, 4000000),
         recommendation |->
             _score_to_recommendation(risk_adjusted_score, 4000000, risk_score)]

(***************************************************************************)
(* The coin records scored: every combination of a market, a social, a     *)
(* development and a price-change profile, with at most one field None.    *)
(***************************************************************************)
MarketProfiles ==
    { [market_cap |-> 0, total_volume |-> 0, current_price |-> 0, high_24h |-> 0,
       low_24h |-> 0, ath |-> 0, circulating_supply |-> 0, total_supply |-> 0],
      \* scripts/quick_test.py: 25M cap, 2.5M volume, price 1.0, ath 2.5
      [market_cap |-> 25000, total_volume |-> 2500, current_price |-> 100,
       high_24h |-> 110, low_24h |-> 95, ath |-> 250,
       circulating_supply |-> 10000, total_supply |-> 12000],
      [market_cap |-> 500, total_volume |-> 50, current_price |-> 10, high_24h |-> 0,
       low_24h |-> 0, ath |-> 100, circulating_supply |-> 0, total_supply |-> 0],
      [market_cap |-> 8000, total_volume |-> 4000, current_price |-> 100,
       high_24h |-> 150, low_24h |-> 100, ath |-> 105,
       circulating_supply |-> 4000, total_supply |-> 10000],
      [market_cap |-> 150000, total_volume |-> 12000, current_price |-> 200,
       high_24h |-> 204, low_24h |-> 196, ath |-> 300,
       circulating_supply |-> 9000, total_supply |-> 10000],
      \* the quick_test.py coin on a day without trades
      [market_cap |-> 25000, total_volume |-> 0, current_price |-> 100,
       high_24h |-> 100, low_24h |-> 100, ath |-> 250,
       circulating_supply |-> 10000, total_supply |-> 12000] }

SocialProfiles ==
    { [twitter_followers |-> 0, reddit_subscribers |-> 0,
       reddit_active_users_48h |-> 0, telegram_users |-> 0, facebook_likes |-> 0],
      [twitter_followers |-> 1000, reddit_subscribers |-> 100,
       reddit_active_users_48h |-> 1, telegram_users |-> 0, facebook_likes |-> 10],
      [twitter_followers |-> 10000, reddit_subscribers |-> 10000,
       reddit_active_users_48h |-> 100, telegram_users |-> 1000,
       facebook_likes |-> 0],
      [twitter_followers |-> 100000, reddit_subscribers |-> 100000,
       reddit_active_users_48h |-> 10000, telegram_users |-> 100000,
       facebook_likes |-> 100000] }

DevProfiles ==
    { [github_commits_4w |-> 0, github_stars |-> 0, github_forks |-> 0,
       github_issues |-> 0, github_pull_requests |-> 0],
      [github_commits_4w |-> 3, github_stars |-> 10, github_forks |-> 10,
       github_issues |-> 5, github_pull_requests |-> 2],
      [github_commits_4w |-> 30, github_stars |-> 100, github_forks |-> 100,
       github_issues |-> 50, github_pull_requests |-> 20],
      [github_commits_4w |-> 100, github_stars |-> 10000, github_forks |-> 10000,
       github_issues |-> 100, github_pull_requests |-> 50] }

ChangeProfiles ==
    { [price_change_percentage_24h |-> 0, price_change_percentage_7d |-> 0,
       price_change_percentage_30d |-> 0],
      \* scripts/quick_test.py: +5.2 % and +15.8 %
      [price_change_percentage_24h |-> 52, price_change_percentage_7d |-> 158,
       price_change_percentage_30d |-> 250],
      [price_change_percentage_24h |-> 150, price_change_percentage_7d |-> 600,
       price_change_percentage_30d |-> 1200],
      [price_change_percentage_24h |-> 300, price_change_percentage_7d |-> 1500,
       price_change_percentage_30d |-> 600],
      [price_change_percentage_24h |-> -120, price_change_percentage_7d |-> -300,
       price_change_percentage_30d |-> -800] }

NullSets ==
    { {}, {"market_cap"}, {"total_volume"}, {"twitter_followers"},
      {"reddit_subscribers"}, {"github_commits_4w"},
      {"price_change_percentage_7d"}, {"price_change_percentage_30d"},
      {"current_price"}, {"high_24h"} }

Coin(m, s, d, ch, nulls) == m @@ s @@ d @@ ch @@ [nulls |-> nulls]

Coins ==
    { Coin(m, s, d, ch, n) : m \in MarketProfiles, s \in SocialProfiles,
                             d \in DevProfiles, ch \in ChangeProfiles,
                             n \in NullSets }

\* Weight configurations GemScoreCalculator.__init__ accepts (hundredths): the
\* defaults, another that sums to 1.0, and two that do not (logged, not rejected).
WeightConfigs ==
    { [social |-> 30, onchain |-> 25, dev |-> 20, liquidity |-> 15, holder |-> 10],
      [social |-> 20, onchain |-> 20, dev |-> 20, liquidity |-> 20, holder |-> 20],
      [social |-> 100, onchain |-> 100, dev |-> 100, liquidity |-> 100,
       holder |-> 100],
      [social |-> 10, onchain |-> 10, dev |-> 0, liquidity |-> 0, holder |-> 0] }

NoCoin == Coin(CHOOSE m \in MarketProfiles : m.market_cap = 0,
               CHOOSE s \in SocialProfiles : s.twitter_followers = 0,
               CHOOSE d \in DevProfiles : d.github_commits_4w = 0,
               CHOOSE ch \in ChangeProfiles : ch.price_change_percentage_7d = 0,
               {})

NoBreakdown == [_default_score EXCEPT !.outcome = "none"]

\* The call scores the record the instance was handed (coin_data).
ComprehensiveScoreCall ==
    /\ breakdown.outcome = "none"
    /\ \E e_total \in FloatErrors, e_adjusted \in FloatErrors :
          /\ calculate_risk_score(coin_data) = 0 => e_adjusted = e_total
          /\ breakdown' = calculate_comprehensive_score(weights, coin_data,
                                                        e_total, e_adjusted)
    /\ UNCHANGED <<weights, coin_data, whaleVars, classified, ladder, dedup,
                   restVars>>

(***************************************************************************)
(* The two ladders applied to any pair of scores and a risk score.         *)
(***************************************************************************)
MaxScore == 100     \* scores evaluated: 0 .. MaxScore whole points

RiskScores == {0, 30, 31, 40, 41, 50, 51, 100}

NoLadder ==
    [called |-> FALSE, s1 |-> 0, s2 |-> 0, risk |-> 0, grade1 |-> "F",
     grade2 |-> "F", rec1 |-> "AVOID", rec2 |-> "AVOID"]

LadderInputs ==
    {[NoLadder EXCEPT !.s1 = s1, !.s2 = s2, !.risk = risk] :
        s1 \in 0..MaxScore, s2 \in 0..MaxScore, risk \in RiskScores}

LadderCall ==
    /\ ~ladder.called
    /\ ladder' = [ladder EXCEPT
                    !.called = TRUE,
                    !.grade1 = _score_to_grade(ladder.s1, 1),
                    !.grade2 = _score_to_grade(ladder.s2, 1),
                    !.rec1 = _score_to_recommendation(ladder.s1, 1, ladder.risk),
                    !.rec2 = _score_to_recommendation(ladder.s2, 1, ladder.risk)]
    /\ UNCHANGED <<whaleVars, classified, calcVars, dedup, restVars>>

(***************************************************************************)
(* GemFinder._deduplicate_gems.  A gem is [id, potential_score,            *)
(* discovery_source]; seen_ids maps an id to the gem kept for it.          *)
(***************************************************************************)
MaxGems == 3        \* longest list handed to _deduplicate_gems

GemIds == {"aave", "bake", "cake"}
PotentialScores == {0, 50, 75}
Sources == {"trending", "volume_surge"}

Gems == [id : GemIds, potential_score : PotentialScores, discovery_source : Sources]

GemLists == UNION {[1..n -> Gems] : n \in 0..MaxGems}

RECURSIVE WithoutId(_, _)
WithoutId(gems, gem_id) ==
    IF gems = << >> THEN << >>
    ELSE IF Head(gems).id # gem_id
    THEN <<Head(gems)>> \o WithoutId(Tail(gems), gem_id)
    ELSE WithoutId(Tail(gems), gem_id)

\* Variant: a later gem of equal potential_score replaces the kept one.
replaces_existing_on_tie(gem, existing) ==
    gem.potential_score >= existing.potential_score

\* if gem.get('potential_score', 0) > existing.get('potential_score', 0)
replaces_existing(gem, existing) == gem.potential_score > existing.potential_score

\* Variant: a gem with a new id is put at the front of unique_gems.
dedup_step_at_front(acc, gem) ==
    IF gem.id \notin DOMAIN acc.seen_ids
    THEN [seen_ids |-> (gem.id :> gem) @@ acc.seen_ids,
          unique_gems |-> <<gem>> \o acc.unique_gems]
    ELSE IF replaces_existing(gem, acc.seen_ids[gem.id])
    THEN [seen_ids |-> (gem.id :> gem) @@ acc.seen_ids,
          unique_gems |-> Append(WithoutId(acc.unique_gems, gem.id), gem)]
    ELSE acc

dedup_step(acc, gem) ==
    IF gem.id \notin DOMAIN acc.seen_ids
    THEN [seen_ids |-> (gem.id :> gem) @@ acc.seen_ids,
          unique_gems |-> Append(acc.unique_gems, gem)]
    ELSE IF replaces_existing(gem, acc.seen_ids[gem.id])
    THEN [seen_ids |-> (gem.id :> gem) @@ acc.seen_ids,
          unique_gems |-> Append(WithoutId(acc.unique_gems, gem.id), gem)]
    ELSE acc

RECURSIVE dedup_loop(_, _)
dedup_loop(acc, gems) ==
    IF gems = << >> THEN acc
    ELSE dedup_loop(dedup_step(acc, Head(gems)), Tail(gems))

_deduplicate_gems(gems) ==
    dedup_loop([seen_ids |-> [i \in {} |-> 0], unique_gems |-> << >>], gems).unique_gems

NoDedup ==
    [called |-> FALSE, gems |-> << >>, unique_gems |-> << >>,
     called_again |-> FALSE, unique_again |-> << >>]

DeduplicateCall ==
    /\ ~dedup.called
    /\ dedup' = [dedup EXCEPT !.called = TRUE,
                               !.unique_gems = _deduplicate_gems(dedup.gems)]
    /\ UNCHANGED <<whaleVars, classified, calcVars, ladder, restVars>>

\* _deduplicate_gems applied to the list the previous call returned.
DeduplicateAgainCall ==
    /\ dedup.called /\ ~dedup.called_again
    /\ dedup' = [dedup EXCEPT !.called_again = TRUE,
                               !.unique_again = _deduplicate_gems(dedup.unique_gems)]
    /\ UNCHANGED <<whaleVars, classified, calcVars, ladder, restVars>>

(***************************************************************************)
(* GemFinder.  Money in thousands of USD, price_change_percentage_7d in     *)
(* tenths of a percent, potential_score in whole points.  A coin record    *)
(* carries the set nulls of its fields whose value is None.                *)
(***************************************************************************)
MaxTrending == 2    \* longest list the trending endpoint serves
MaxMarkets == 2     \* longest list the markets endpoint serves

FinderIds == {"aave", "bake"}

\* GemFinder.__init__: the filtering criteria (defaults, in thousands).
DefaultCriteria ==
    [min_market_cap |-> 1000, max_market_cap |-> 100000, min_volume_24h |-> 100]

\* ---- _is_gem_candidate
\* Comparing None with a number raises TypeError; None == 0 is just False.
candidate_raises(criteria, coin) ==
    \/ Null(coin, "market_cap")
    \/ /\ criteria.min_market_cap <= coin.market_cap
       /\ coin.market_cap <= criteria.max_market_cap
       /\ Null(coin, "total_volume")

EqualsZero(coin, f) == ~Null(coin, f) /\ coin[f] = 0

_is_gem_candidate(criteria, coin) ==
    IF candidate_raises(criteria, coin) THEN FALSE
    ELSE IF ~(criteria.min_market_cap <= coin.market_cap
              /\ coin.market_cap <= criteria.max_market_cap) THEN FALSE
    ELSE IF coin.total_volume < criteria.min_volume_24h THEN FALSE
    \* volume_24h / market_cap < 0.01
    ELSE IF coin.market_cap > 0 /\ 100 * coin.total_volume < coin.market_cap
    THEN FALSE
    ELSE IF EqualsZero(coin, "twitter_followers")
            /\ EqualsZero(coin, "reddit_subscribers") THEN FALSE
    ELSE TRUE

\* ---- _has_social_buzz
buzz_raises(coin) ==
    \/ Null(coin, "twitter_followers") \/ Null(coin, "reddit_subscribers")
    \/ Null(coin, "reddit_active_users_48h") \/ Null(coin, "telegram_users")

_has_social_buzz(coin) ==
    IF buzz_raises(coin) THEN FALSE
    ELSE LET social_score ==
                 (IF coin.twitter_followers > 10000 THEN 1 ELSE 0)
                 + (IF coin.reddit_subscribers > 5000 THEN 1 ELSE 0)
                 + (IF coin.reddit_active_users_48h > 100 THEN 1 ELSE 0)
                 + (IF coin.telegram_users > 1000 THEN 1 ELSE 0)
         IN  social_score >= 2

\* ---- _calculate_potential_score
potential_raises(coin) ==
    \/ Null(coin, "market_cap")
    \/ (coin.market_cap > 0 /\ Null(coin, "total_volume"))
    \/ Null(coin, "twitter_followers")
    \/ (coin.twitter_followers <= 50000 /\ Null(coin, "reddit_subscribers"))
    \/ Null(coin, "github_commits_4w")
    \/ Null(coin, "github_stars")
    \/ Null(coin, "price_change_percentage_7d")

_calculate_potential_score(coin) ==
    IF potential_raises(coin) THEN 0
    ELSE LET mc == coin.market_cap
             vol == coin.total_volume
             tw == coin.twitter_followers
             rd == coin.reddit_subscribers
             cap == IF 5000 <= mc /\ mc <= 50000 THEN 25
                    ELSE IF 1000 <= mc /\ mc < 5000 THEN 20
                    ELSE IF mc < 1000 THEN 10
                    ELSE 0
             liquidity == IF mc > 0
                          THEN IF 10 * vol > mc THEN 20         \* ratio > 0.1
                               ELSE IF 20 * vol > mc THEN 15    \* ratio > 0.05
                               ELSE IF 50 * vol > mc THEN 10    \* ratio > 0.02
                               ELSE 0
                          ELSE 0
             social == IF tw > 50000 \/ rd > 20000 THEN 15
                       ELSE IF tw > 10000 \/ rd > 5000 THEN 10
                       ELSE IF tw > 1000 \/ rd > 1000 THEN 5
                       ELSE 0
             commits == IF coin.github_commits_4w > 50 THEN 15
                        ELSE IF coin.github_commits_4w > 20 THEN 10
                        ELSE IF coin.github_commits_4w > 5 THEN 5
                        ELSE 0
             stars == IF coin.github_stars > 1000 THEN 5
                      ELSE IF coin.github_stars > 100 THEN 3
                      ELSE 0
             price == IF 0 < coin.price_change_percentage_7d
                         /\ coin.price_change_percentage_7d < 1000 THEN 10
                      ELSE IF coin.price_change_percentage_7d > 1000 THEN 5
                      ELSE 0
         IN  Min(cap + liquidity + social + commits + stars + price, 100)

\* ---- _enrich_gem_data: the fields of the enriched record the finder reads
\* back (every helper it calls catches its own errors).
_enrich_gem_data(coin_id, coin, source) ==
    [id |-> coin_id, potential_score |-> _calculate_potential_score(coin),
     discovery_source |-> source]

(***************************************************************************)
(* What the market-data provider serves.  A failed request reaches the     *)
(* finder as {} (CoinGeckoClient._make_sync_request, lines 89-94).         *)
(***************************************************************************)
DetailCoin(mc, vol, tw, rd, active, tg, commits, stars, change_7d, nulls) ==
    [market_cap |-> mc, total_volume |-> vol, twitter_followers |-> tw,
     reddit_subscribers |-> rd, reddit_active_users_48h |-> active,
     telegram_users |-> tg, github_commits_4w |-> commits,
     github_stars |-> stars, price_change_percentage_7d |-> change_7d,
     nulls |-> nulls]

NoDetailCoin == DetailCoin(0, 0, 0, 0, 0, 0, 0, 0, 0, {})

\* A candidate with a social following, one without much of one, and one that
\* turns over less than 1 % a day.
DetailProfiles ==
    { DetailCoin(25000, 2500, 100000, 100000, 10000, 100000, 100, 10000, 158, {}),
      DetailCoin(8000, 4000, 1000, 100, 1, 0, 3, 10, 0, {}),
      DetailCoin(25000, 200, 100000, 100000, 10000, 100000, 100, 10000, 158, {}) }

\* get_coin_details: "ok" with the parsed record, "empty" ({}: the request
\* failed), or "raises" (_parse_coin_details raises on a malformed payload).
DetailResponses ==
    {[kind |-> "ok", coin |-> c] : c \in DetailProfiles}
    \cup {[kind |-> k, coin |-> NoDetailCoin] : k \in {"empty", "raises"}}

\* One element of the coins/markets payload.
MarketEntry(coin_id, mc, vol, nulls) ==
    [id |-> coin_id, market_cap |-> mc, total_volume |-> vol, nulls |-> nulls]

\* In range and liquid; market_cap null; volume below the minimum; market
\* cap below the minimum.
MarketEntries ==
    { MarketEntry("aave", 25000, 2500, {}),
      MarketEntry("aave", 0, 2500, {"market_cap"}),
      MarketEntry("aave", 25000, 50, {}),
      MarketEntry("bake", 25000, 2500, {}),
      MarketEntry("bake", 500, 2500, {}) }

\* The trending payload lists each coin once.
TrendingResponses ==
    {[ok |-> FALSE, coins |-> << >>]}
    \cup {[ok |-> TRUE, coins |-> l] :
              l \in {m \in UNION {[1..n -> FinderIds] : n \in 0..MaxTrending} :
                         \A i, j \in DOMAIN m : m[i] = m[j] => i = j}}

MarketsResponses ==
    {[ok |-> FALSE, coins |-> << >>]}
    \cup {[ok |-> TRUE, coins |-> l] :
              l \in UNION {[1..n -> MarketEntries] : n \in 0..MaxMarkets}}

Providers ==
    [trending : TrendingResponses, markets : MarketsResponses,
     details : [FinderIds -> DetailResponses]]

NoProvider ==
    [trending |-> [ok |-> FALSE, coins |-> << >>],
     markets |-> [ok |-> FALSE, coins |-> << >>],
     details |-> [i \in FinderIds |-> [kind |-> "empty", coin |-> NoDetailCoin]]]

\* CoinGeckoClient.get_trending_coins
get_trending_coins(prov) ==
    IF ~prov.trending.ok THEN << >> ELSE prov.trending.coins

\* coin.get(f) is truthy: neither None nor 0.
TruthyNumber(coin, f) == ~Null(coin, f) /\ coin[f] # 0

\* CoinGeckoClient.get_new_coins
RECURSIVE new_coins_loop(_)
new_coins_loop(data) ==
    IF data = << >> THEN << >>
    ELSE (IF TruthyNumber(Head(data), "market_cap")
             /\ TruthyNumber(Head(data), "total_volume")
          THEN <<Head(data)>> ELSE << >>) \o new_coins_loop(Tail(data))

get_new_coins(prov) ==
    IF ~prov.markets.ok THEN << >> ELSE new_coins_loop(prov.markets.coins)

\* The raw coins/markets payload the volume and social strategies request.
market_data(prov) == IF ~prov.markets.ok THEN << >> ELSE prov.markets.coins

\* CoinGeckoClient.get_coin_details
get_coin_details(prov, coin_id) == prov.details[coin_id]

(***************************************************************************)
(* The four discovery strategies.  acc is [gems, processed, raised,        *)
(* fetches]: gem_candidates, self.processed_coins, whether an exception    *)
(* left the loop, and the get_coin_details calls issued so far.            *)
(***************************************************************************)
InRange(criteria, market_cap) ==
    criteria.min_market_cap <= market_cap /\ market_cap <= criteria.max_market_cap

\* acc after one more get_coin_details call.
WithFetch(acc, coin_id, source) ==
    [acc EXCEPT !.fetches = Append(@, [id |-> coin_id, source |-> source])]

\* find_trending_gems, lines 45-55
\* Variant: the loop body skips the ids that are in processed_coins.
trending_step_skips_seen(acc, coin_id, prov, criteria) ==
    LET details == get_coin_details(prov, coin_id)
        fetched == WithFetch(acc, coin_id, "trending")
    IN  IF coin_id \in acc.processed THEN acc
        ELSE IF details.kind = "raises" THEN fetched
        ELSE IF details.kind = "ok" /\ _is_gem_candidate(criteria, details.coin)
        THEN [fetched EXCEPT !.gems =
                 Append(@, _enrich_gem_data(coin_id, details.coin, "trending"))]
        ELSE fetched

trending_step(acc, coin_id, prov, criteria) ==
    LET details == get_coin_details(prov, coin_id)
        fetched == WithFetch(acc, coin_id, "trending")
    IN  IF details.kind = "raises" THEN fetched
        ELSE IF details.kind = "ok" /\ _is_gem_candidate(criteria, details.coin)
        THEN [fetched EXCEPT !.gems =
                 Append(@, _enrich_gem_data(coin_id, details.coin, "trending"))]
        ELSE fetched

RECURSIVE trending_loop(_, _, _, _)
trending_loop(acc, coins, prov, criteria) ==
    IF coins = << >> THEN acc
    ELSE trending_loop(trending_step(acc, Head(coins), prov, criteria),
                       Tail(coins), prov, criteria)

find_trending_gems(prov, criteria, processed) ==
    LET trending_coins == get_trending_coins(prov)
        start == [gems |-> << >>, processed |-> processed, raised |-> FALSE,
                  fetches |-> << >>]
    IN  IF trending_coins = << >> THEN start
        ELSE trending_loop(start, trending_coins, prov, criteria)

\* Variant: the loop body without self.processed_coins.add(coin['id']).
new_listing_step_without_add(acc, coin, prov, criteria) ==
    LET details == get_coin_details(prov, coin.id)
        fetched == WithFetch(acc, coin.id, "new_listing")
    IN  IF coin.id \in acc.processed THEN acc
        ELSE IF details.kind = "raises" THEN fetched
        ELSE IF details.kind = "ok" /\ _is_gem_candidate(criteria, details.coin)
        THEN [fetched EXCEPT
                 !.gems = Append(@, _enrich_gem_data(coin.id, details.coin,
                                                     "new_listing"))]
        ELSE fetched

\* find_new_listings, lines 71-85
new_listing_step(acc, coin, prov, criteria) ==
    LET details == get_coin_details(prov, coin.id)
        fetched == WithFetch(acc, coin.id, "new_listing")
    IN  IF coin.id \in acc.processed THEN acc
        ELSE IF details.kind = "raises" THEN fetched
        ELSE IF details.kind = "ok" /\ _is_gem_candidate(criteria, details.coin)
        THEN [fetched EXCEPT
                 !.gems = Append(@, _enrich_gem_data(coin.id, details.coin,
                                                     "new_listing")),
                 !.processed = @ \cup {coin.id}]
        ELSE fetched

RECURSIVE new_listing_loop(_, _, _, _)
new_listing_loop(acc, coins, prov, criteria) ==
    IF coins = << >> THEN acc
    ELSE new_listing_loop(new_listing_step(acc, Head(coins), prov, criteria),
                          Tail(coins), prov, criteria)

find_new_listings(prov, criteria, processed) ==
    LET new_coins == get_new_coins(prov)
        start == [gems |-> << >>, processed |-> processed, raised |-> FALSE,
                  fetches |-> << >>]
    IN  IF new_coins = << >> THEN start
        ELSE new_listing_loop(start, new_coins, prov, criteria)

\* find_volume_surge_gems, lines 108-128.  The comparison of lines 116-117 is
\* outside the try: a None market_cap, or a None total_volume behind a
\* market_cap in range, raises TypeError out of the strategy.
volume_prefilter_raises(criteria, coin) ==
    \/ Null(coin, "market_cap")
    \/ (InRange(criteria, coin.market_cap) /\ Null(coin, "total_volume"))

\* Variant: the pre-filter without the volume condition.
volume_prefilter_cap_only(criteria, coin) ==
    InRange(criteria, coin.market_cap)

volume_prefilter(criteria, coin) ==
    InRange(criteria, coin.market_cap)
    /\ coin.total_volume >= criteria.min_volume_24h

volume_surge_step(acc, coin, prov, criteria) ==
    LET details == get_coin_details(prov, coin.id)
        fetched == WithFetch(acc, coin.id, "volume_surge")
    IN  IF acc.raised THEN acc
        ELSE IF coin.id \in acc.processed THEN acc
        ELSE IF volume_prefilter_raises(criteria, coin)
        THEN [acc EXCEPT !.raised = TRUE]
        ELSE IF ~volume_prefilter(criteria, coin) THEN acc
        ELSE IF details.kind = "raises" THEN fetched
        ELSE IF details.kind = "ok" /\ _is_gem_candidate(criteria, details.coin)
        THEN [fetched EXCEPT
                 !.gems = Append(@, _enrich_gem_data(coin.id, details.coin,
                                                     "volume_surge")),
                 !.processed = @ \cup {coin.id}]
        ELSE fetched

RECURSIVE volume_surge_loop(_, _, _, _)
volume_surge_loop(acc, coins, prov, criteria) ==
    IF coins = << >> THEN acc
    ELSE volume_surge_loop(volume_surge_step(acc, Head(coins), prov, criteria),
                           Tail(coins), prov, criteria)

find_volume_surge_gems(prov, criteria, processed) ==
    LET start == [gems |-> << >>, processed |-> processed, raised |-> FALSE,
                  fetches |-> << >>]
    IN  IF market_data(prov) = << >> THEN start
        ELSE volume_surge_loop(start, market_data(prov), prov, criteria)

\* find_social_buzz_gems, lines 153-168.  The comparison of line 158 is
\* outside the try as well.
BuzzScanLimit == 50

Take(list, n) == SubSeq(list, 1, Min(Len(list), n))

buzz_prefilter_raises(criteria, coin) == Null(coin, "market_cap")

\* Variant: the social-buzz heuristic decides before the detail fetch.
social_buzz_step_prefiltered(acc, coin, prov, criteria) ==
    LET details == get_coin_details(prov, coin.id)
        fetched == WithFetch(acc, coin.id, "social_buzz")
    IN  IF acc.raised THEN acc
        ELSE IF coin.id \in acc.processed THEN acc
        ELSE IF buzz_prefilter_raises(criteria, coin)
        THEN [acc EXCEPT !.raised = TRUE]
        ELSE IF ~InRange(criteria, coin.market_cap) THEN acc
        ELSE IF details.kind = "ok" /\ ~_has_social_buzz(details.coin) THEN acc
        ELSE IF details.kind = "raises" THEN fetched
        ELSE IF /\ details.kind = "ok"
                /\ _is_gem_candidate(criteria, details.coin)
        THEN [fetched EXCEPT
                 !.gems = Append(@, _enrich_gem_data(coin.id, details.coin,
                                                     "social_buzz")),
                 !.processed = @ \cup {coin.id}]
        ELSE fetched

social_buzz_step(acc, coin, prov, criteria) ==
    LET details == get_coin_details(prov, coin.id)
        fetched == WithFetch(acc, coin.id, "social_buzz")
    IN  IF acc.raised THEN acc
        ELSE IF coin.id \in acc.processed THEN acc
        ELSE IF buzz_prefilter_raises(criteria, coin)
        THEN [acc EXCEPT !.raised = TRUE]
        ELSE IF ~InRange(criteria, coin.market_cap) THEN acc
        ELSE IF details.kind = "raises" THEN fetched
        ELSE IF /\ details.kind = "ok"
                /\ _has_social_buzz(details.coin)
                /\ _is_gem_candidate(criteria, details.coin)
        THEN [fetched EXCEPT
                 !.gems = Append(@, _enrich_gem_data(coin.id, details.coin,
                                                     "social_buzz")),
                 !.processed = @ \cup {coin.id}]
        ELSE fetched

RECURSIVE social_buzz_loop(_, _, _, _)
social_buzz_loop(acc, coins, prov, criteria) ==
    IF coins = << >> THEN acc
    ELSE social_buzz_loop(social_buzz_step(acc, Head(coins), prov, criteria),
                          Tail(coins), prov, criteria)

find_social_buzz_gems(prov, criteria, processed) ==
    LET start == [gems |-> << >>, processed |-> processed, raised |-> FALSE,
                  fetches |-> << >>]
    IN  IF market_data(prov) = << >> THEN start
        ELSE social_buzz_loop(start, Take(market_data(prov), BuzzScanLimit),
                              prov, criteria)

(***************************************************************************)
(* comprehensive_scan, lines 173-193.                                      *)
(***************************************************************************)
\* sorted(unique_gems, key=potential_score, reverse=True): stable, so gems of
\* equal score keep their order.
RECURSIVE InsertDescending(_, _)
InsertDescending(gem, sorted) ==
    IF sorted = << >> THEN <<gem>>
    ELSE IF Head(sorted).potential_score < gem.potential_score
    THEN <<gem>> \o sorted
    ELSE <<Head(sorted)>> \o InsertDescending(gem, Tail(sorted))

RECURSIVE sort_loop(_, _)
sort_loop(sorted, gems) ==
    IF gems = << >> THEN sorted
    ELSE sort_loop(InsertDescending(Head(gems), sorted), Tail(gems))

sorted_descending(gems) == sort_loop(<< >>, gems)

\* Variant: the seen-set is kept across the scan.
cleared_kept(processed) == processed

\* self.processed_coins.clear()
cleared(processed) == {}

comprehensive_scan(prov, criteria, processed) ==
    LET trending == find_trending_gems(prov, criteria, cleared(processed))
        listings == find_new_listings(prov, criteria, trending.processed)
        surge == find_volume_surge_gems(prov, criteria, listings.processed)
        buzz == find_social_buzz_gems(prov, criteria, surge.processed)
        all_gems == trending.gems \o listings.gems \o surge.gems \o buzz.gems
    IN  IF surge.raised
        THEN [surge EXCEPT !.gems = << >>,
                 !.fetches = trending.fetches \o listings.fetches \o surge.fetches]
        ELSE [gems |-> IF buzz.raised THEN << >>
                       ELSE sorted_descending(_deduplicate_gems(all_gems)),
              processed |-> buzz.processed, raised |-> buzz.raised,
              fetches |-> trending.fetches \o listings.fetches
                          \o surge.fetches \o buzz.fetches]

NoFinderCall ==
    [op |-> "none", processed_before |-> {}, outcome |-> "none", gems |-> << >>,
     fetches |-> << >>]

\* The effect of one finished call on the finder.
FinderEffect(op, acc) ==
    /\ processed_coins' = acc.processed
    /\ finder' = [op |-> op, processed_before |-> processed_coins,
                  outcome |-> IF acc.raised THEN "raised" ELSE "returned",
                  gems |-> IF acc.raised THEN << >> ELSE acc.gems,
                  fetches |-> acc.fetches]
    /\ UNCHANGED <<provider, candidate, whaleVars, classified, calcVars,
                   ladder, dedup, entryVars>>

FindTrendingGemsCall ==
    FinderEffect("find_trending_gems",
                 find_trending_gems(provider, DefaultCriteria, processed_coins))

FindNewListingsCall ==
    FinderEffect("find_new_listings",
                 find_new_listings(provider, DefaultCriteria, processed_coins))

FindVolumeSurgeGemsCall ==
    FinderEffect("find_volume_surge_gems",
                 find_volume_surge_gems(provider, DefaultCriteria, processed_coins))

FindSocialBuzzGemsCall ==
    FinderEffect("find_social_buzz_gems",
                 find_social_buzz_gems(provider, DefaultCriteria, processed_coins))

ComprehensiveScanCall ==
    FinderEffect("comprehensive_scan",
                 comprehensive_scan(provider, DefaultCriteria, processed_coins))

(***************************************************************************)
(* _is_gem_candidate applied to one coin record under given criteria.      *)
(***************************************************************************)
CriteriaConfigs ==
    { DefaultCriteria,
      [min_market_cap |-> 0, max_market_cap |-> 25000, min_volume_24h |-> 10] }

CandidateCoins ==
    { [market_cap |-> mc, total_volume |-> vol, twitter_followers |-> tw,
       reddit_subscribers |-> rd, nulls |-> nulls] :
        mc \in {0, 999, 1000, 25000, 100000, 100001},
        vol \in {0, 9, 10, 99, 100, 249, 250, 1000, 2500},
        tw \in {0, 5}, rd \in {0, 7},
        nulls \in { {}, {"market_cap"}, {"total_volume"}, {"twitter_followers"},
                    {"reddit_subscribers"},
                    {"twitter_followers", "reddit_subscribers"} } }

NoCandidate ==
    [called |-> FALSE, criteria |-> DefaultCriteria,
     coin |-> [market_cap |-> 0, total_volume |-> 0, twitter_followers |-> 0,
               reddit_subscribers |-> 0, nulls |-> {}],
     result |-> FALSE]

IsGemCandidateCall ==
    /\ ~candidate.called
    /\ candidate' = [candidate EXCEPT
                        !.called = TRUE,
                        !.result = _is_gem_candidate(candidate.criteria,
                                                     candidate.coin)]
    /\ UNCHANGED <<processed_coins, provider, finder, whaleVars, classified,
                   calcVars, ladder, dedup, entryVars>>

(***************************************************************************)
(* One client instance issuing synchronous requests.  Time is counted in   *)
(* twentieths of a second.  The clock is time.time(), taken to be          *)
(* non-decreasing; time.sleep(t) returns after t or a little later.  A     *)
(* request in progress is at "rate_limit" (about to run _rate_limit) or at *)
(* "send" (about to call requests.get); depth is the number of             *)
(* _make_sync_request frames on the stack.                                 *)
(***************************************************************************)
StackLimit == 3    \* frames of _make_sync_request the interpreter allows
MaxCalls == 2      \* top-level requests issued on the instance

GeckoRateLimitDelay == 24     \* 1.2 s
BscRateLimitDelay == 5        \* 0.25 s
RetrySleep == 1200            \* 60 s

ClientKinds == {"coingecko", "bscscan"}

\* Time passing between two top-level requests, and between _rate_limit
\* and requests.get inside one request.
CallGaps == {0, 1, 30}
SendLatency == {0, 1}
Oversleep == {0, 1}

\* What requests.get does: a status code, or an exception.
Statuses == {"200", "429", "500", "exception"}

\* __init__; the instance is created at some time far from the epoch.
NewClient(kind) ==
    [kind |-> kind,
     rate_limit_delay |-> IF kind = "coingecko" THEN GeckoRateLimitDelay
                          ELSE BscRateLimitDelay,
     last_call_time |-> 0,
     clock |-> 2000,
     pc |-> "idle", depth |-> 0, calls |-> 0, sends |-> 0,
     recorded_before |-> 0, since_recorded |-> 0,
     call_sends |-> 0, call_429s |-> 0, call_sleeps |-> 0,
     last_status |-> "none", outcome |-> "none"]

\* Variant: no wait before a request.
sleep_time_none(delay, time_since_last_call) == 0

\* _rate_limit: the time to sleep
sleep_time(delay, time_since_last_call) ==
    IF time_since_last_call < delay THEN delay - time_since_last_call ELSE 0

\* _rate_limit; recorded_before keeps the time recorded for the request
\* before this one.
_rate_limit(c, overslept) ==
    LET current_time == c.clock
        slept == sleep_time(c.rate_limit_delay, current_time - c.last_call_time)
        woke == current_time + slept + (IF slept > 0 THEN overslept ELSE 0)
    IN  [c EXCEPT !.clock = woke,
                  !.recorded_before = c.last_call_time,
                  !.last_call_time = woke]

Returned(c, outcome) ==
    [c EXCEPT !.pc = "idle", !.depth = 0, !.outcome = outcome]

\* Variant: a 429 answer is handled like any other error status.
coingecko_response_without_retry(c, status, overslept) ==
    IF status = "200" THEN Returned(c, "payload") ELSE Returned(c, "empty")

\* CoinGeckoClient._make_sync_request, lines 80-94, after requests.get.
\* The recursive call stands inside the try: when the stack is exhausted
\* the RecursionError is caught at line 92 and every frame returns {}.
coingecko_response(c, status, overslept) ==
    IF status = "200" THEN Returned(c, "payload")
    ELSE IF status = "429"
    THEN LET woke == [c EXCEPT !.clock = @ + RetrySleep + overslept,
                               !.call_sleeps = @ + 1]
         IN  IF c.depth < StackLimit
             THEN [woke EXCEPT !.pc = "rate_limit", !.depth = @ + 1]
             ELSE Returned(woke, "empty")
    ELSE Returned(c, "empty")

\* BSCScanClient._make_sync_request, lines 71-80: a payload on 200 (with
\* an accepted envelope), an exception otherwise.
bscscan_response(c, status) ==
    IF status = "200" THEN Returned(c, "payload") ELSE Returned(c, "raised")

\* A caller invokes _make_sync_request.
MakeSyncRequestCall ==
    /\ client.pc = "idle"
    /\ client.calls < MaxCalls
    /\ \E gap \in CallGaps :
           client' = [client EXCEPT !.clock = @ + gap,
                                    !.pc = "rate_limit", !.depth = 1,
                                    !.calls = @ + 1,
                                    !.call_sends = 0, !.call_429s = 0,
                                    !.call_sleeps = 0,
                                    !.last_status = "none",
                                    !.outcome = "none"]
    /\ UNCHANGED <<startup, finderVars, whaleVars, classified, calcVars,
                   ladder, dedup>>

\* self._rate_limit() at the head of _make_sync_request.
RateLimitStep ==
    /\ client.pc = "rate_limit"
    /\ \E overslept \in Oversleep :
           client' = [_rate_limit(client, overslept) EXCEPT !.pc = "send"]
    /\ UNCHANGED <<startup, finderVars, whaleVars, classified, calcVars,
                   ladder, dedup>>

\* requests.get and the handling of its answer.
SendStep ==
    /\ client.pc = "send"
    /\ \E latency \in SendLatency, status \in Statuses, overslept \in Oversleep :
           LET sent == [client EXCEPT
                           !.clock = @ + latency,
                           !.since_recorded =
                               client.clock + latency - client.recorded_before,
                           !.sends = @ + 1,
                           !.call_sends = @ + 1,
                           !.call_429s = @ + (IF status = "429" THEN 1 ELSE 0),
                           !.last_status = status]
           IN  client' = IF client.kind = "coingecko"
                         THEN coingecko_response(sent, status, overslept)
                         ELSE bscscan_response(sent, status)
    /\ UNCHANGED <<startup, finderVars, whaleVars, classified, calcVars,
                   ladder, dedup>>

(***************************************************************************)
(* The whale-tracking entry point, quick_start.py: main() run as a         *)
(* process, possibly several times under the same environment.  Each run   *)
(* builds its own tracker; the value main returns is the exit code.        *)
(***************************************************************************)
MaxRuns == 2       \* runs of the entry point

\* BSCSCAN_API_KEY as read from the environment: unset, empty, or set.
ApiKeys == {None, "", "key"}

\* config.EXCHANGE_ADDRESSES
ConfigExchangeAddresses ==
    [a \in {"0xaa", "0xbb"} |-> IF a = "0xaa" THEN "Binance" ELSE "OKEx"]

NoStartup ==
    [runs |-> 0, api_key |-> None, whale_threshold_usd |-> 100000,
     dirs_ok |-> TRUE, response |-> "ok", fetched |-> << >>,
     validation |-> "none", tracker_created |-> FALSE, requests |-> 0,
     whale_transactions |-> << >>, exit_code |-> -1]

\* Variant: only an unset key is refused.
validate_config_unset_only(api_key, dirs_ok) ==
    IF api_key = None THEN "ValueError"
    ELSE IF ~dirs_ok THEN "OSError"
    ELSE "ok"

\* Config.validate_config: `not cls.BSCSCAN_API_KEY` holds for None and for
\* the empty string; mkdir may fail.
validate_config(api_key, dirs_ok) ==
    IF api_key \in {None, ""} THEN "ValueError"
    ELSE IF ~dirs_ok THEN "OSError"
    ELSE "ok"

main ==
    /\ startup.runs < MaxRuns
    /\ \E dirs_ok \in BOOLEAN, response \in ResponseKinds,
          fetched \in FetchedLists :
           LET validation == validate_config(startup.api_key, dirs_ok)
               acc == sync_loop([whales |-> << >>, known |-> {},
                                 raised |-> FALSE],
                                fetched, 1, ConfigExchangeAddresses,
                                startup.whale_threshold_usd)
               run == [startup EXCEPT !.runs = @ + 1,
                                      !.validation = validation]
           IN  /\ validation = "ok" \/ (response = "ok" /\ fetched = << >>)
               /\ validation # "ValueError" \/ dirs_ok
               /\ response = "ok" \/ fetched = << >>
               /\ startup' =
                      IF validation # "ok"
                      THEN [run EXCEPT !.dirs_ok = dirs_ok,
                                       !.response = "ok", !.fetched = << >>,
                                       !.tracker_created = FALSE,
                                       !.requests = 0,
                                       !.whale_transactions = << >>,
                                       !.exit_code = 1]
                      ELSE [run EXCEPT
                               !.dirs_ok = TRUE,
                               !.response = response, !.fetched = fetched,
                               !.tracker_created = TRUE,
                               !.requests = 1,
                               !.whale_transactions =
                                   IF request_raises(response) \/ acc.raised
                                   THEN << >> ELSE acc.whales,
                               !.exit_code =
                                   IF request_raises(response) \/ acc.raised
                                   THEN 1 ELSE 0]
    /\ UNCHANGED <<client, finderVars, whaleVars, classified, calcVars,
                   ladder, dedup>>

(***************************************************************************)
(* Construction and the specifications, one per component.                 *)
(***************************************************************************)
NotClassified ==
    [called |-> FALSE, from_address |-> None, to_address |-> None,
     outcome |-> "none", classification |-> NoClassification]

\* WhaleTracker.__init__
TrackerInit ==
    /\ exchange_addresses \in ExchangeTables
    /\ whale_threshold_usd \in Thresholds
    /\ known_transactions = {}
    /\ scan = NoScan
    /\ emitted = [h \in Hashes |-> 0]
    /\ classified = NotClassified

TrackerIdle ==
    /\ exchange_addresses = EmptyTable
    /\ whale_threshold_usd = 100000
    /\ known_transactions = {}
    /\ scan = NoScan
    /\ emitted = [h \in Hashes |-> 0]
    /\ classified = NotClassified

\* GemScoreCalculator.__init__
CalculatorInit ==
    /\ weights \in WeightConfigs
    /\ coin_data \in Coins
    /\ breakdown = NoBreakdown

CalculatorIdle ==
    /\ weights = [social |-> 30, onchain |-> 25, dev |-> 20, liquidity |-> 15,
                  holder |-> 10]
    /\ coin_data = NoCoin
    /\ breakdown = NoBreakdown

\* GemFinder.__init__
FinderIdle ==
    /\ processed_coins = {}
    /\ provider = NoProvider
    /\ finder = NoFinderCall
    /\ candidate = NoCandidate

EntryIdle ==
    /\ client = NewClient("coingecko")
    /\ startup = NoStartup

RestIdle == FinderIdle /\ EntryIdle

InitWhale ==
    /\ TrackerInit /\ CalculatorIdle /\ ladder = NoLadder /\ dedup = NoDedup
    /\ RestIdle

NextWhale == scan_recent_transactions_sync \/ scan_recent_transactions

SpecWhale == InitWhale /\ [][NextWhale]_vars

NextClassify == ClassifyCall

SpecClassify == InitWhale /\ [][NextClassify]_vars

InitScore ==
    /\ TrackerIdle /\ CalculatorInit /\ ladder = NoLadder /\ dedup = NoDedup
    /\ RestIdle

NextScore == ComprehensiveScoreCall

SpecScore == InitScore /\ [][NextScore]_vars

InitLadder ==
    /\ TrackerIdle /\ CalculatorIdle /\ ladder \in LadderInputs /\ dedup = NoDedup
    /\ RestIdle

NextLadder == LadderCall

SpecLadder == InitLadder /\ [][NextLadder]_vars

InitDedup ==
    /\ TrackerIdle /\ CalculatorIdle /\ ladder = NoLadder
    /\ dedup \in {[NoDedup EXCEPT !.gems = gems] : gems \in GemLists}
    /\ RestIdle

NextDedup == DeduplicateCall \/ DeduplicateAgainCall

SpecDedup == InitDedup /\ [][NextDedup]_vars

InitFinder ==
    /\ TrackerIdle /\ CalculatorIdle /\ ladder = NoLadder /\ dedup = NoDedup
    /\ processed_coins = {}
    /\ provider \in Providers
    /\ finder = NoFinderCall
    /\ candidate = NoCandidate
    /\ EntryIdle

NextFinder ==
    \/ FindTrendingGemsCall
    \/ FindNewListingsCall
    \/ FindVolumeSurgeGemsCall
    \/ FindSocialBuzzGemsCall
    \/ ComprehensiveScanCall

SpecFinder == InitFinder /\ [][NextFinder]_vars

InitCandidate ==
    /\ TrackerIdle /\ CalculatorIdle /\ ladder = NoLadder /\ dedup = NoDedup
    /\ processed_coins = {}
    /\ provider = NoProvider
    /\ finder = NoFinderCall
    /\ candidate \in {[NoCandidate EXCEPT !.criteria = cr, !.coin = c] :
                          cr \in CriteriaConfigs, c \in CandidateCoins}
    /\ EntryIdle

NextCandidate == IsGemCandidateCall

SpecCandidate == InitCandidate /\ [][NextCandidate]_vars

InitClient ==
    /\ TrackerIdle /\ CalculatorIdle /\ ladder = NoLadder /\ dedup = NoDedup
    /\ FinderIdle
    /\ client \in {NewClient(kind) : kind \in ClientKinds}
    /\ startup = NoStartup

NextClient ==
    \/ MakeSyncRequestCall
    \/ RateLimitStep
    \/ SendStep

SpecClient == InitClient /\ [][NextClient]_vars

\* The environment a run starts in: the key and the threshold of
\* settings.py, lines 18 and 39.
InitMain ==
    /\ TrackerIdle /\ CalculatorIdle /\ ladder = NoLadder /\ dedup = NoDedup
    /\ FinderIdle
    /\ client = NewClient("coingecko")
    /\ startup \in {[NoStartup EXCEPT !.api_key = k, !.whale_threshold_usd = t] :
                        k \in ApiKeys, t \in Thresholds}

NextMain == main

SpecMain == InitMain /\ [][NextMain]_vars


(***************************************************************************)
(* Properties                                                              *)
(***************************************************************************)
InTable(address) == Lower(address) \in DOMAIN exchange_addresses

MeetsThreshold(raw, price) ==
    /\ raw.numeric
    /\ raw.value * price >= whale_threshold_usd * Pow10(raw.tokenDecimal)

ReturnedHashes == {scan.whale_transactions[i].hash :
                       i \in 1..Len(scan.whale_transactions)}

\* 200,000 tokens (2,000,000 units of a 1-decimal token).
ExampleTransfer ==
    [parsed |-> TRUE, hash |-> "h1", from_address |-> "0xaa",
     to_address |-> "0xc1", value_raw |-> 2000000, decimals |-> 1]

\* C2: a transfer is a whale transaction exactly when value_tokens *
\* token_price_usd >= whale_threshold_usd, equality included: a list
\* scan_recent_transactions_sync returns holds only transfers that meet the
\* condition, and holds every fetched, parseable, not yet known transfer that
\* meets it; 200,000 tokens at price 1 are a whale at threshold 100,000 and
\* not at threshold 500,000.
C2_WhaleThreshold ==
    /\ is_whale_transaction(ExampleTransfer, 1, 100000)
    /\ ~is_whale_transaction(ExampleTransfer, 1, 500000)
    /\ (scan.op = "sync" /\ scan.outcome = "returned") =>
        /\ \A i \in 1..Len(scan.whale_transactions) :
              LET tx == scan.whale_transactions[i]
              IN  tx.value_raw * scan.price
                      >= whale_threshold_usd * Pow10(tx.decimals)
        /\ \A i \in 1..Len(scan.fetched) :
              (/\ MeetsThreshold(scan.fetched[i], scan.price)
               /\ scan.fetched[i].hash \notin scan.known_before)
                  => scan.fetched[i].hash \in ReturnedHashes
        /\ \A i \in 1..Len(scan.fetched) :
              ~MeetsThreshold(scan.fetched[i], scan.price)
                  => scan.fetched[i].hash \notin ReturnedHashes

\* 50,000 tokens at price 2 against a threshold of 100,000: exactly equal,
\* and returned.
C2_Witness ==
    /\ scan.op = "sync" /\ scan.outcome = "returned"
    /\ whale_threshold_usd = 100000 /\ scan.price = 2
    /\ \E i \in 1..Len(scan.whale_transactions) :
          /\ scan.whale_transactions[i].hash = "h2"
          /\ scan.whale_transactions[i].usd_raw = 100000

\* C3: over any sequence of scans (sync or async, any fetched lists, any
\* token prices) on one tracker, a transaction hash is in the returned whale
\* lists at most once in total.
C3_EmittedAtMostOnce == \A h \in Hashes : emitted[h] <= 1

\* A later scan fetches, above the threshold, a transfer that an earlier scan
\* returned, next to one it had not: only the new one is returned.
C3_Witness ==
    /\ scan.outcome = "returned"
    /\ Len(scan.whale_transactions) = 1
    /\ \E i \in 1..Len(scan.fetched) :
          /\ scan.fetched[i].hash \in scan.known_before
          /\ MeetsThreshold(scan.fetched[i], scan.price)
          /\ scan.fetched[i].hash \notin ReturnedHashes
          /\ emitted[scan.fetched[i].hash] = 1


AnySubScoreRaises(c) ==
    \/ social_raises(c) \/ onchain_raises(c) \/ development_raises(c)
    \/ liquidity_raises(c) \/ holder_raises(c) \/ momentum_raises(c)
    \/ trend_raises(c) \/ risk_raises(c)

ScoreFields ==
    {"total_score", "risk_adjusted_score", "social_score", "onchain_score",
     "development_score", "liquidity_score", "holder_score", "momentum_score",
     "trend_score", "risk_score"}

\* The weighted sum of the five dimension scores the breakdown reports, in
\* 1/10000 of a point.
ReportedTotal4 ==
    weighted_total(weights, breakdown.social_score, breakdown.onchain_score,
                   breakdown.development_score, breakdown.liquidity_score,
                   breakdown.holder_score)

\* C4 (as stated): calculate_comprehensive_score never raises, and whenever
\* an error occurs inside any sub-score it returns the default breakdown.
C4_DefaultOnAnySubScoreError ==
    breakdown.outcome # "none" =>
        /\ breakdown.outcome = "returned"
        /\ AnySubScoreRaises(coin_data) => breakdown = _default_score

\* C4 (amended): calculate_comprehensive_score never raises; an error inside
\* a sub-score is absorbed by that sub-score, which then contributes its own
\* fallback value (0 for social, on-chain, development and liquidity; 50 for
\* holder, momentum, trend and risk), and the breakdown is computed from
\* these values: total_score is the weighted sum of the five reported
\* dimension scores, rounded to two decimals.
C4_SubScoreFallbacks ==
    breakdown.outcome # "none" =>
        /\ breakdown.outcome = "returned"
        /\ social_raises(coin_data) => breakdown.social_score = 0
        /\ onchain_raises(coin_data) => breakdown.onchain_score = 0
        /\ development_raises(coin_data) => breakdown.development_score = 0
        /\ liquidity_raises(coin_data) => breakdown.liquidity_score = 0
        /\ holder_raises(coin_data) => breakdown.holder_score = 5000
        /\ momentum_raises(coin_data) => breakdown.momentum_score = 5000
        /\ trend_raises(coin_data) => breakdown.trend_score = 5000
        /\ risk_raises(coin_data) => breakdown.risk_score = 5000
        /\ Abs(100 * breakdown.total_score - ReportedTotal4) <= 50

\* market_cap is None: the on-chain, liquidity, holder and risk sub-scores
\* fail, and the breakdown still carries the social score and a total above 0.
C4_Witness ==
    /\ breakdown.outcome = "returned"
    /\ holder_raises(coin_data) /\ risk_raises(coin_data)
    /\ breakdown.holder_score = 5000 /\ breakdown.risk_score = 5000
    /\ breakdown.social_score > 0
    /\ breakdown.total_score > 0
    /\ breakdown # _default_score

\* C5: for every coin record, the risk_adjusted_score of a returned breakdown
\* is less than or equal to its total_score.
C5_RiskAdjustedAtMostTotal ==
    breakdown.outcome = "returned" =>
        breakdown.risk_adjusted_score <= breakdown.total_score

\* A coin with a positive risk score: the adjustment lowers the score.
C5_Witness ==
    /\ breakdown.outcome = "returned"
    /\ breakdown.risk_score > 0
    /\ breakdown.total_score > 0
    /\ breakdown.risk_adjusted_score < breakdown.total_score

\* C6: for every coin record and every weight configuration the constructor
\* accepts, every score value of the returned breakdown is in [0, 100].
C6_ScoresInRange ==
    breakdown.outcome = "returned" =>
        \A f \in ScoreFields : 0 <= breakdown[f] /\ breakdown[f] <= 10000


\* The grade the threshold table gives a score of s whole points.
GradeOfInterval(s) ==
    CASE s >= 90 -> "A+"
      [] 85 <= s /\ s < 90 -> "A"
      [] 80 <= s /\ s < 85 -> "A-"
      [] 75 <= s /\ s < 80 -> "B+"
      [] 70 <= s /\ s < 75 -> "B"
      [] 65 <= s /\ s < 70 -> "B-"
      [] 60 <= s /\ s < 65 -> "C+"
      [] 55 <= s /\ s < 60 -> "C"
      [] 50 <= s /\ s < 55 -> "C-"
      [] 40 <= s /\ s < 50 -> "D"
      [] s < 40 -> "F"

GradeRank(g) ==
    CASE g = "A+" -> 10 [] g = "A" -> 9 [] g = "A-" -> 8 [] g = "B+" -> 7
      [] g = "B" -> 6 [] g = "B-" -> 5 [] g = "C+" -> 4 [] g = "C" -> 3
      [] g = "C-" -> 2 [] g = "D" -> 1 [] g = "F" -> 0

RecommendationRank(r) ==
    CASE r = "STRONG_BUY" -> 5 [] r = "BUY" -> 4 [] r = "MODERATE_BUY" -> 3
      [] r = "HOLD_WATCH" -> 2 [] r = "WEAK_HOLD" -> 1 [] r = "AVOID" -> 0

\* C7: _score_to_grade is the descending threshold ladder A+ >= 90, A >= 85,
\* A- >= 80, B+ >= 75, B >= 70, B- >= 65, C+ >= 60, C >= 55, C- >= 50,
\* D >= 40, F < 40, and for two scores s1 > s2 the grade of s1 is never worse
\* than the grade of s2.
C7_GradeLadder ==
    ladder.called =>
        /\ ladder.grade1 = GradeOfInterval(ladder.s1)
        /\ ladder.grade2 = GradeOfInterval(ladder.s2)
        /\ ladder.s1 > ladder.s2 =>
               GradeRank(ladder.grade1) >= GradeRank(ladder.grade2)

\* 90 is an A+ and 89 is an A.
C7_Witness ==
    /\ ladder.called
    /\ ladder.s1 = 90 /\ ladder.s2 = 89
    /\ ladder.grade1 = "A+" /\ ladder.grade2 = "A"

\* C8: at equal risk, for two scores s1 > s2 the recommendation of s1 is never
\* a worse bucket than the recommendation of s2, in the order STRONG_BUY > BUY
\* > MODERATE_BUY > HOLD_WATCH > WEAK_HOLD > AVOID.
C8_RecommendationMonotonic ==
    (ladder.called /\ ladder.s1 > ladder.s2) =>
        RecommendationRank(ladder.rec1) >= RecommendationRank(ladder.rec2)

\* At risk 40 a score of 80 is a BUY and a score of 70 a MODERATE_BUY.
C8_Witness ==
    /\ ladder.called
    /\ ladder.risk = 40
    /\ ladder.s1 = 80 /\ ladder.s2 = 70
    /\ ladder.rec1 = "BUY" /\ ladder.rec2 = "MODERATE_BUY"

\* The rungs of the recommendation ladder, best first.
Rung(n, s, risk) ==
    CASE n = 5 -> s >= 85 /\ risk <= 30
      [] n = 4 -> s >= 75 /\ risk <= 40
      [] n = 3 -> s >= 65 /\ risk <= 50
      [] n = 2 -> s >= 55
      [] n = 1 -> s >= 45
      [] n = 0 -> TRUE

\* C9: for every (score, risk) pair _score_to_recommendation returns the
\* bucket of the first rung of the descending ladder that matches, one of the
\* six buckets; it is STRONG_BUY if and only if score >= 85 and risk <= 30, and
\* a score >= 85 with risk > 50 is HOLD_WATCH.
C9_FirstMatchingRung ==
    ladder.called =>
        LET n == RecommendationRank(ladder.rec1)
        IN  /\ ladder.rec1 \in {"STRONG_BUY", "BUY", "MODERATE_BUY",
                                "HOLD_WATCH", "WEAK_HOLD", "AVOID"}
            /\ Rung(n, ladder.s1, ladder.risk)
            /\ \A m \in (n + 1)..5 : ~Rung(m, ladder.s1, ladder.risk)
            /\ ladder.rec1 = "STRONG_BUY" <=>
                   (ladder.s1 >= 85 /\ ladder.risk <= 30)
            /\ (ladder.s1 >= 85 /\ ladder.risk > 50) =>
                   ladder.rec1 = "HOLD_WATCH"

\* A score of 90 at risk 51 is only a HOLD_WATCH.
C9_Witness ==
    /\ ladder.called
    /\ ladder.s1 = 90 /\ ladder.risk = 51
    /\ ladder.rec1 = "HOLD_WATCH"

\* The positions of the input that carry the id.
PositionsOf(gems, gem_id) == {i \in 1..Len(gems) : gems[i].id = gem_id}

\* The earliest position among those of the id with the highest potential_score.
BestPosition(gems, gem_id) ==
    CHOOSE i \in PositionsOf(gems, gem_id) :
        \A j \in PositionsOf(gems, gem_id) :
            \/ gems[j].potential_score < gems[i].potential_score
            \/ (gems[j].potential_score = gems[i].potential_score /\ i <= j)

\* C10: for every input list, _deduplicate_gems returns a list with exactly
\* one candidate per coin id of the input and no other id, and that candidate
\* is the input candidate of that id with the maximum potential_score, the
\* earliest one when scores tie.
C10_OnePerIdBestScore ==
    dedup.called =>
        LET gems == dedup.gems
            unique == dedup.unique_gems
            ids == {gems[i].id : i \in 1..Len(gems)}
        IN  /\ \A k \in 1..Len(unique) : unique[k].id \in ids
            /\ \A gem_id \in ids :
                  /\ Cardinality(PositionsOf(unique, gem_id)) = 1
                  /\ \A k \in PositionsOf(unique, gem_id) :
                        unique[k] = gems[BestPosition(gems, gem_id)]

\* Three candidates of one id: the second and the third tie at the highest
\* score and come from different strategies; the second is the one kept.
C10_Witness ==
    /\ dedup.called
    /\ Len(dedup.gems) = 3
    /\ dedup.gems[1].id = dedup.gems[2].id /\ dedup.gems[2].id = dedup.gems[3].id
    /\ dedup.gems[1].potential_score < dedup.gems[2].potential_score
    /\ dedup.gems[2].potential_score = dedup.gems[3].potential_score
    /\ dedup.gems[2].discovery_source # dedup.gems[3].discovery_source
    /\ dedup.unique_gems = <<dedup.gems[2]>>


PairwiseDistinctIds(gems) ==
    \A i \in 1..Len(gems), j \in 1..Len(gems) :
        gems[i].id = gems[j].id => i = j

\* C11: _deduplicate_gems is idempotent: applied to its own result it returns
\* that result, the same elements in the same order; and a list whose ids are
\* pairwise distinct is returned unchanged.
C11_DedupIdempotent ==
    /\ dedup.called_again => dedup.unique_again = dedup.unique_gems
    /\ (dedup.called /\ PairwiseDistinctIds(dedup.gems)) =>
           dedup.unique_gems = dedup.gems

\* A list in which a later, higher-scoring duplicate replaced the first entry
\* and so moved behind the second one; the second pass leaves it as it is.
C11_Witness ==
    /\ dedup.called_again
    /\ Len(dedup.gems) = 3
    /\ dedup.gems[1].id = dedup.gems[3].id
    /\ dedup.gems[1].id # dedup.gems[2].id
    /\ dedup.gems[1].potential_score < dedup.gems[3].potential_score
    /\ dedup.unique_gems = <<dedup.gems[2], dedup.gems[3]>>
    /\ dedup.unique_again = dedup.unique_gems

\* The four strategies run in the order of comprehensive_scan, the first one
\* from an empty seen-set and each later one from the seen-set its
\* predecessor left.
StrategiesFromEmpty ==
    LET trending == find_trending_gems(provider, DefaultCriteria, {})
        listings == find_new_listings(provider, DefaultCriteria, trending.processed)
        surge == find_volume_surge_gems(provider, DefaultCriteria, listings.processed)
        buzz == find_social_buzz_gems(provider, DefaultCriteria, surge.processed)
    IN  [gems |-> trending.gems \o listings.gems \o surge.gems \o buzz.gems,
         raised |-> surge.raised \/ buzz.raised,
         processed |-> buzz.processed]

ElementsOf(gems) == {gems[i] : i \in 1..Len(gems)}

NonIncreasingScores(gems) ==
    \A i \in 1..Len(gems), j \in 1..Len(gems) :
        i < j => gems[i].potential_score >= gems[j].potential_score

\* C12: a comprehensive_scan that returns gives the deduplicated
\* concatenation of the four strategies (trending, new listings, volume
\* surge, social buzz) run from an emptied seen-set, ordered by
\* non-increasing potential_score: no two entries share an id, and neither
\* the result nor the seen-set left behind depends on what processed_coins
\* held before the call.
C12_ComprehensiveScan ==
    (finder.op = "comprehensive_scan" /\ finder.outcome = "returned") =>
        /\ ~StrategiesFromEmpty.raised
        /\ ElementsOf(finder.gems)
               = ElementsOf(_deduplicate_gems(StrategiesFromEmpty.gems))
        /\ PairwiseDistinctIds(finder.gems)
        /\ NonIncreasingScores(finder.gems)
        /\ processed_coins = StrategiesFromEmpty.processed
        /\ \A before \in SUBSET FinderIds :
               comprehensive_scan(provider, DefaultCriteria, before).gems
                   = finder.gems

\* A scan started with a non-empty seen-set returns two coins of different
\* scores, one of them already in the seen-set before the call.
C12_Witness ==
    /\ finder.op = "comprehensive_scan"
    /\ finder.outcome = "returned"
    /\ finder.processed_before # {}
    /\ Len(finder.gems) = 2
    /\ finder.gems[1].potential_score > finder.gems[2].potential_score
    /\ \E i \in 1..2 : finder.gems[i].id \in finder.processed_before

\* A social count that is reported and is not zero.
NonzeroCount(coin, f) == ~Null(coin, f) /\ coin[f] # 0

\* The four conditions on a record whose market cap and volume are numbers;
\* the turnover total_volume / market_cap >= 1% is compared without division.
MeetsAllFour(criteria, coin) ==
    /\ criteria.min_market_cap <= coin.market_cap
    /\ coin.market_cap <= criteria.max_market_cap
    /\ coin.total_volume >= criteria.min_volume_24h
    /\ 100 * coin.total_volume >= coin.market_cap
    /\ \/ NonzeroCount(coin, "twitter_followers")
       \/ NonzeroCount(coin, "reddit_subscribers")

\* C13: _is_gem_candidate returns True if and only if the market cap is
\* within [min_market_cap, max_market_cap], the volume is at least
\* min_volume_24h, the turnover is at least 1% and twitter_followers or
\* reddit_subscribers is nonzero; an evaluation that raises yields False.
C13_CandidateIffAllFour ==
    candidate.called =>
        (candidate.result <=>
            /\ ~candidate_raises(candidate.criteria, candidate.coin)
            /\ MeetsAllFour(candidate.criteria, candidate.coin))

\* C14: a transport error (non-200 HTTP status or network failure) on the
\* token-transfer request is not propagated: the synchronous whale scan
\* returns an empty list.
C14_TransportErrorReturnsEmpty ==
    (scan.op = "sync" /\ scan.response \in {"http_error", "network_error"}) =>
        /\ scan.outcome = "returned"
        /\ scan.whale_transactions = << >>

\* C15: a provider-reported error (HTTP 200 with an envelope status other
\* than "1") is caught by the caller of _make_sync_request and does not
\* escape the synchronous whale scan.
C15_ProviderErrorDoesNotEscape ==
    (scan.op = "sync" /\ scan.response = "api_error") =>
        scan.outcome = "returned"

StrategyOps ==
    {"find_trending_gems", "find_new_listings", "find_volume_surge_gems",
     "find_social_buzz_gems"}

\* C16: in every discovery strategy a failure while processing one coin of
\* the fetched list skips only that coin: whatever the provider answered,
\* the strategy returns normally.
C16_StrategyReturnsNormally ==
    finder.op \in StrategyOps => finder.outcome = "returned"

RequestReturned == client.pc = "idle" /\ client.calls > 0

\* C17 as stated: no retry bound, so a _make_sync_request call never
\* returns on a 429 answer.
C17_NeverReturnsOn429 ==
    (client.kind = "coingecko" /\ RequestReturned) =>
        client.last_status # "429"

\* C17: on each 429 answer CoinGeckoClient._make_sync_request sleeps 60
\* seconds and re-issues the request from one more stack frame.  It returns
\* the payload exactly when the last answer was 200; it returns on a 429
\* answer only when the frames are exhausted, and then with the empty
\* result; every other return follows an answer that was not 429.
C17_RetryOn429 ==
    client.kind = "coingecko" =>
        /\ client.call_sleeps = client.call_429s
        /\ client.call_sends <= StackLimit
        /\ RequestReturned =>
               /\ client.outcome = "payload" <=> client.last_status = "200"
               /\ client.outcome \in {"payload", "empty"}
               /\ client.last_status = "429" =>
                      client.call_sends = StackLimit
               /\ client.last_status # "429" =>
                      client.call_sends = client.call_429s + 1

\* A call answered 429 twice and then 200: two sleeps, three requests, the
\* payload returned.
C17_Witness ==
    /\ client.kind = "coingecko"
    /\ RequestReturned
    /\ client.call_429s = 2
    /\ client.call_sleeps = 2
    /\ client.call_sends = 3
    /\ client.outcome = "payload"

\* C18: on one client instance a request is never sent earlier than
\* rate_limit_delay after the time recorded for the previous request, a
\* retry after a 429 included, and last_call_time never decreases.
C18_RateLimitSpacing ==
    /\ client.last_call_time >= client.recorded_before
    /\ client.sends >= 2 => client.since_recorded >= client.rate_limit_delay

\* A second top-level request issued right after the first one: _rate_limit
\* slept, and the request went out exactly rate_limit_delay after the
\* recorded time.
C18_Witness ==
    /\ client.calls = 2
    /\ client.sends = 2
    /\ client.pc = "idle"
    /\ client.recorded_before > 0
    /\ client.since_recorded = client.rate_limit_delay

KeyMissing == startup.api_key \in {None, ""}

\* C19: with the BSCScan API key missing, validate_config raises and the
\* entry point ends with exit code 1 without having created a tracker or
\* issued a provider request; with the key present and no error it ends
\* with exit code 0.
C19_ExitCodes ==
    startup.runs > 0 =>
        /\ KeyMissing =>
               /\ startup.validation = "ValueError"
               /\ startup.exit_code = 1
               /\ ~startup.tracker_created
               /\ startup.requests = 0
        /\ startup.exit_code = 0 <=>
               /\ ~KeyMissing
               /\ startup.validation = "ok"
               /\ ~request_raises(startup.response)
               /\ \A i \in 1..Len(startup.fetched) :
                      LET tx == parse_transaction(startup.fetched[i])
                      IN  (tx.parsed /\ is_whale_transaction(
                               tx, 1, startup.whale_threshold_usd))
                              => ~classify_raises(tx)
        /\ startup.exit_code \in {0, 1}

\* A run with the key set to the empty string: refused before any tracker
\* exists.
C19_Witness ==
    /\ startup.runs > 0
    /\ startup.api_key = ""
    /\ startup.validation = "ValueError"
    /\ startup.exit_code = 1
    /\ ~startup.tracker_created

\* The social, developer and volume fields of the record are all zero.
ZeroFields(c) ==
    \A f \in {"twitter_followers", "reddit_subscribers",
               "reddit_active_users_48h", "telegram_users", "facebook_likes",
               "github_commits_4w", "github_stars", "github_forks",
               "github_issues", "github_pull_requests", "total_volume"} :
        ~Null(c, f) /\ c[f] = 0

ZeroFieldCall ==
    /\ breakdown.outcome = "returned"
    /\ ZeroFields(coin_data)
    /\ ~onchain_raises(coin_data)

\* C20 as stated: for a record whose social, developer and volume fields are
\* all zero the on-chain score is the market-cap band plus the
\* 7-day-change band and nothing else.
C20_OnlyCapAndChangeBands ==
    ZeroFieldCall =>
        breakdown.onchain_score =
            onchain_market_cap_band(coin_data) + onchain_change_band(coin_data)

\* C20: for a record whose social, developer and volume fields are all zero
\* the social and the development score are 0 and the on-chain score has no
\* turnover contribution: it is the market-cap band plus the 7-day-change
\* band, plus the supply and the ATH band where the record carries those
\* fields.
C20_ZeroFieldScores ==
    ZeroFieldCall =>
        /\ breakdown.social_score = 0
        /\ breakdown.development_score = 0
        /\ breakdown.onchain_score =
               onchain_market_cap_band(coin_data)
               + onchain_change_band(coin_data)
               + onchain_supply_band(coin_data) + onchain_ath_band(coin_data)

\* The quick_test.py coin without volume, social or developer data:
\* 30 + 20 from market cap and 7-day change, 15 + 8 from supply and ATH.
C20_Witness ==
    /\ ZeroFieldCall
    /\ coin_data.market_cap = 25000
    /\ coin_data.price_change_percentage_7d = 158
    /\ coin_data.circulating_supply = 10000
    /\ coin_data.ath = 250
    /\ breakdown.social_score = 0
    /\ breakdown.development_score = 0
    /\ breakdown.onchain_score = 7300

\* A scored record with a market cap in [10M, 50M], a turnover of exactly
\* 10% and a 7-day change in [0, 50].
ExampleBands ==
    /\ breakdown.outcome = "returned"
    /\ ~onchain_raises(coin_data)
    /\ 10000 <= coin_data.market_cap /\ coin_data.market_cap <= 50000
    /\ coin_data.total_volume > 0
    /\ 10 * coin_data.total_volume = coin_data.market_cap
    /\ 0 <= coin_data.price_change_percentage_7d
    /\ coin_data.price_change_percentage_7d <= 500

\* C21: the on-chain score is determined by the record's bands: with a
\* market cap in [10M, 50M] (30), a turnover of exactly 10% (15, the band
\* below the one that needs more than 10%) and a 7-day change in [0, 50]
\* (20) it is 65 plus the supply and ATH bands, whatever the weights and the
\* other fields are.
C21_OnchainBands ==
    ExampleBands =>
        breakdown.onchain_score =
            6500 + onchain_supply_band(coin_data) + onchain_ath_band(coin_data)

\* The quick_test.py coin: 65 from the three bands, 15 from the supply ratio
\* 10/12 and 8 from the distance 0.6 to the all-time high.
C21_Witness ==
    /\ ExampleBands
    /\ coin_data.market_cap = 25000
    /\ coin_data.total_volume = 2500
    /\ coin_data.price_change_percentage_7d = 158
    /\ breakdown.onchain_score = 8800

\* Each of the five penalties of calculate_risk_score is at its maximum.
AllPenaltiesMaximal(c) ==
    /\ ~risk_raises(c)
    /\ c.market_cap < 1000
    /\ Abs(c.price_change_percentage_7d) > 1000
    /\ c.total_volume < 100
    /\ c.twitter_followers < 1000 /\ c.reddit_subscribers < 1000
    /\ c.github_commits_4w = 0

\* C22 as stated: the risk score never reaches 100, so the multiplier
\* 1 - risk_score / 200 stays above 0.5.
C22_RiskBelow100 ==
    breakdown.outcome = "returned" => breakdown.risk_score < 10000

\* C22: the risk score lies in [0, 100] and is 100 exactly when all five
\* penalties are at their maximum (30 + 25 + 20 + 15 + 10); the multiplier
\* 1 - risk_score / 200 therefore lies in the closed interval [0.5, 1], and
\* at risk 100 the reported risk-adjusted score is half the total, up to the
\* rounding of the two reported values.
C22_RiskMultiplierRange ==
    breakdown.outcome = "returned" =>
        /\ 0 <= breakdown.risk_score /\ breakdown.risk_score <= 10000
        /\ breakdown.risk_score = 10000 <=> AllPenaltiesMaximal(coin_data)
        /\ 2 * breakdown.risk_adjusted_score + 2 >= breakdown.total_score
        /\ breakdown.risk_score = 10000 =>
               2 * breakdown.risk_adjusted_score <= breakdown.total_score + 2

\* A micro-cap coin without volume, community or commits after a 150% week:
\* risk 100, and a positive total reported at exactly half.
C22_Witness ==
    /\ breakdown.outcome = "returned"
    /\ AllPenaltiesMaximal(coin_data)
    /\ breakdown.risk_score = 10000
    /\ breakdown.total_score > 0
    /\ 2 * breakdown.risk_adjusted_score = breakdown.total_score

\* The strategies that consult the seen-set.
SeenSetOps ==
    {"find_new_listings", "find_volume_surge_gems", "find_social_buzz_gems"}

\* The detail fetches the last call issued for coin_id from these strategies.
SeenSetFetches(coin_id) ==
    {i \in 1..Len(finder.fetches) :
        finder.fetches[i].id = coin_id /\ finder.fetches[i].source # "trending"}

\* The seen-set the three strategies of the last call started from.
SeenAtStart ==
    IF finder.op = "comprehensive_scan" THEN {} ELSE finder.processed_before

\* C23: a coin id returned by find_new_listings, find_volume_surge_gems or
\* find_social_buzz_gems is in processed_coins from then on, and a call of
\* these strategies neither returns nor fetches an id that is in
\* processed_coins; only comprehensive_scan empties the set.  Stated on the
\* last call: ids seen at its start were neither fetched nor returned, every
\* id it returned through these strategies is seen afterwards and was
\* fetched once, and no call but comprehensive_scan removes an id.
C23_SeenCoinsNotReprocessed ==
    finder.op \in SeenSetOps \cup {"comprehensive_scan"} =>
        /\ \A coin_id \in SeenAtStart :
               /\ SeenSetFetches(coin_id) = {}
               /\ \A i \in 1..Len(finder.gems) :
                      finder.gems[i].id = coin_id =>
                          finder.gems[i].discovery_source = "trending"
        /\ \A i \in 1..Len(finder.gems) :
               finder.gems[i].discovery_source # "trending" =>
                   finder.gems[i].id \in processed_coins
        /\ \A coin_id \in processed_coins \ SeenAtStart :
               Cardinality(SeenSetFetches(coin_id)) = 1
        /\ SeenAtStart \subseteq processed_coins
        /\ finder.op \in SeenSetOps => PairwiseDistinctIds(finder.gems)

\* A volume-surge call on a finder that had already returned "aave": the
\* snapshot lists "aave" and "bake", only "bake" is fetched and returned.
C23_Witness ==
    /\ finder.op = "find_volume_surge_gems"
    /\ finder.outcome = "returned"
    /\ finder.processed_before = {"aave"}
    /\ \E i \in 1..Len(provider.markets.coins) :
           /\ provider.markets.coins[i].id = "aave"
           /\ ~volume_prefilter_raises(DefaultCriteria, provider.markets.coins[i])
           /\ volume_prefilter(DefaultCriteria, provider.markets.coins[i])
    /\ Len(finder.gems) = 1
    /\ finder.gems[1].id = "bake"
    /\ Len(finder.fetches) = 1
    /\ processed_coins = {"aave", "bake"}

\* The part of the market snapshot find_social_buzz_gems looks at.
BuzzSnapshot == Take(market_data(provider), BuzzScanLimit)

FetchedIds == {finder.fetches[i].id : i \in 1..Len(finder.fetches)}

\* C24 as stated: find_social_buzz_gems issues no detail fetch for a coin
\* that fails the social-buzz heuristic.
C24_NoFetchWithoutBuzz ==
    finder.op = "find_social_buzz_gems" =>
        \A coin_id \in FetchedIds :
            get_coin_details(provider, coin_id).kind = "ok" =>
                _has_social_buzz(get_coin_details(provider, coin_id).coin)

\* C24: in find_social_buzz_gems only the market-cap band is checked before
\* the detail fetch: every unseen coin among the first 50 of the snapshot
\* whose market cap is in the band is fetched, and no other; the social-buzz
\* heuristic is applied to the fetched details, and every returned candidate
\* passed it and the universal filter.
C24_BuzzAfterFetch ==
    finder.op = "find_social_buzz_gems" =>
        /\ \A coin_id \in FetchedIds :
               /\ coin_id \notin finder.processed_before
               /\ \E j \in 1..Len(BuzzSnapshot) :
                      /\ BuzzSnapshot[j].id = coin_id
                      /\ ~Null(BuzzSnapshot[j], "market_cap")
                      /\ InRange(DefaultCriteria, BuzzSnapshot[j].market_cap)
        /\ finder.outcome = "returned" =>
               \A j \in 1..Len(BuzzSnapshot) :
                   (/\ BuzzSnapshot[j].id \notin finder.processed_before
                    /\ InRange(DefaultCriteria, BuzzSnapshot[j].market_cap))
                       => BuzzSnapshot[j].id \in FetchedIds
        /\ \A i \in 1..Len(finder.gems) :
               LET details == get_coin_details(provider, finder.gems[i].id)
               IN  /\ finder.gems[i].id \in FetchedIds
                   /\ details.kind = "ok"
                   /\ _has_social_buzz(details.coin)
                   /\ _is_gem_candidate(DefaultCriteria, details.coin)

\* A coin in the band whose details show no social buzz: fetched, then
\* dropped.
C24_Witness ==
    /\ finder.op = "find_social_buzz_gems"
    /\ finder.outcome = "returned"
    /\ finder.gems = << >>
    /\ \E coin_id \in FetchedIds :
           /\ get_coin_details(provider, coin_id).kind = "ok"
           /\ ~_has_social_buzz(get_coin_details(provider, coin_id).coin)
           /\ _is_gem_candidate(DefaultCriteria,
                                get_coin_details(provider, coin_id).coin)

\* C25: find_volume_surge_gems issues a detail fetch only for snapshot coins
\* that are not in processed_coins, whose market cap is within
\* [min_market_cap, max_market_cap] and whose volume is at least
\* min_volume_24h; every candidate it returns was fetched and passed the
\* universal filter on its fetched details.
C25_SurgeFetchesPrefiltered ==
    finder.op = "find_volume_surge_gems" =>
        /\ \A coin_id \in FetchedIds :
               /\ coin_id \notin finder.processed_before
               /\ \E j \in 1..Len(market_data(provider)) :
                      LET coin == market_data(provider)[j]
                      IN  /\ coin.id = coin_id
                          /\ ~Null(coin, "market_cap")
                          /\ ~Null(coin, "total_volume")
                          /\ DefaultCriteria.min_market_cap <= coin.market_cap
                          /\ coin.market_cap <= DefaultCriteria.max_market_cap
                          /\ coin.total_volume >= DefaultCriteria.min_volume_24h
        /\ \A i \in 1..Len(finder.gems) :
               LET details == get_coin_details(provider, finder.gems[i].id)
               IN  /\ finder.gems[i].id \in FetchedIds
                   /\ details.kind = "ok"
                   /\ _is_gem_candidate(DefaultCriteria, details.coin)

\* A snapshot with a thinly traded "aave" and a liquid "bake": only "bake"
\* is fetched, and it is returned.
C25_Witness ==
    /\ finder.op = "find_volume_surge_gems"
    /\ finder.outcome = "returned"
    /\ finder.processed_before = {}
    /\ Len(market_data(provider)) = 2
    /\ market_data(provider)[1].id = "aave"
    /\ market_data(provider)[1].total_volume < DefaultCriteria.min_volume_24h
    /\ FetchedIds = {"bake"}
    /\ Len(finder.gems) = 1
    /\ finder.gems[1].id = "bake"

\* The tracker state the last scan started from.
ScanStart == [whales |-> << >>, known |-> scan.known_before, raised |-> FALSE]

\* What the other of the two scan methods gives from the same tracker state,
\* fetched list and token price.
OtherScan ==
    IF scan.op = "sync"
    THEN async_loop(ScanStart, scan.fetched, scan.price, exchange_addresses,
                    whale_threshold_usd)
    ELSE sync_loop(ScanStart, scan.fetched, scan.price, exchange_addresses,
                   whale_threshold_usd)

\* C26: from the same tracker state, fetched transfer list and token price,
\* scan_recent_transactions and scan_recent_transactions_sync return the
\* same whale list in the same order (or both raise) and leave
\* known_transactions in the same state.
C26_AsyncEqualsSync ==
    (scan.op \in {"sync", "async"} /\ ~request_raises(scan.response)) =>
        /\ OtherScan.raised <=> scan.outcome = "raised"
        /\ ~OtherScan.raised => OtherScan.whales = scan.whale_transactions
        /\ OtherScan.known = known_transactions

\* An asynchronous scan on a tracker that already knows one of the fetched
\* whale transfers: it returns the other one only.
C26_Witness ==
    /\ scan.op = "async"
    /\ scan.outcome = "returned"
    /\ Len(scan.fetched) = 2
    /\ Len(scan.whale_transactions) = 1
    /\ \E i \in 1..2 :
          /\ scan.fetched[i].hash \in scan.known_before
          /\ MeetsThreshold(scan.fetched[i], scan.price)
    /\ known_transactions # scan.known_before

\* C27: after any sequence of scans, scans that end with an exception
\* included, known_transactions is exactly the set of hashes that were in a
\* list returned to a caller.
C27_KnownExactlyEmitted ==
    known_transactions = {h \in Hashes : emitted[h] > 0}

\* The hashes the last scan fetched only in records that are unparseable or
\* below the whale threshold at the scan's token price.
NotQualifying ==
    {h \in Hashes :
        /\ \E i \in 1..Len(scan.fetched) : scan.fetched[i].hash = h
        /\ \A i \in 1..Len(scan.fetched) :
              scan.fetched[i].hash = h =>
                  ~MeetsThreshold(scan.fetched[i], scan.price)}

\* A scan that returns emits every fetched transfer that meets the threshold
\* at its price and that the scan before it fetched without marking it.
EmittedByLaterScan ==
    \A h \in NotQualifying :
        (/\ h \notin scan.known_before
         /\ scan'.outcome = "returned"
         /\ \E j \in 1..Len(scan'.fetched) :
               /\ scan'.fetched[j].hash = h
               /\ MeetsThreshold(scan'.fetched[j], scan'.price))
        => \E k \in 1..Len(scan'.whale_transactions) :
               scan'.whale_transactions[k].hash = h

\* C28: a scan leaves known_transactions unchanged for every fetched
\* transfer that is unparseable or below the whale threshold (the hash is in
\* known_transactions after the scan exactly when it was before), and the
\* same transfer is emitted by the next scan that returns and in which it
\* meets the threshold.
C28_NotQualifyingNotMarked ==
    /\ [](\A h \in NotQualifying :
             h \in known_transactions <=> h \in scan.known_before)
    /\ [][EmittedByLaterScan]_vars

\* A transfer of 50,000 tokens, below the threshold of 100,000 USD at price
\* 1, is returned by a scan at price 2, and it was not known before.
C28_Witness ==
    /\ whale_threshold_usd = 100000
    /\ scan.outcome = "returned"
    /\ scan.price = 2
    /\ "h2" \in ReturnedHashes
    /\ "h2" \notin scan.known_before
    /\ \E i \in 1..Len(scan.fetched) :
          /\ scan.fetched[i].hash = "h2"
          /\ ~MeetsThreshold(scan.fetched[i], 1)
    /\ emitted["h2"] = 1

\* The trending ids of the provider whose details arrive and pass the
\* universal filter, in the order of the trending list.
RECURSIVE TrendingPassing(_)
TrendingPassing(coins) ==
    IF coins = << >> THEN << >>
    ELSE LET details == get_coin_details(provider, Head(coins))
         IN  (IF details.kind = "ok"
                   /\ _is_gem_candidate(DefaultCriteria, details.coin)
              THEN <<Head(coins)>> ELSE << >>)
             \o TrendingPassing(Tail(coins))

\* The ids the last call returned, in order.
ReturnedIdList == [i \in 1..Len(finder.gems) |-> finder.gems[i].id]

\* The ids the last call fetched with the given discovery source.
FetchedAs(source) ==
    {finder.fetches[i].id :
        i \in {k \in 1..Len(finder.fetches) : finder.fetches[k].source = source}}

\* The ids the four strategies of a scan return before deduplication.
ReturnedBefore(source) ==
    {StrategiesFromEmpty.gems[i].id :
        i \in {k \in 1..Len(StrategiesFromEmpty.gems) :
                  StrategiesFromEmpty.gems[k].discovery_source = source}}

\* C29: find_trending_gems neither reads nor modifies processed_coins: it
\* returns every trending coin whose details pass the universal filter, ids
\* in the seen-set included, fetches every trending id, and leaves the
\* seen-set as it was; within one comprehensive_scan the trending strategy
\* marks nothing, and although a later strategy may fetch and return a
\* trending coin again, the scan result holds each id once.
C29_TrendingIgnoresSeenSet ==
    /\ finder.op = "find_trending_gems" =>
          /\ finder.outcome = "returned"
          /\ processed_coins = finder.processed_before
          /\ ReturnedIdList = TrendingPassing(get_trending_coins(provider))
          /\ [i \in 1..Len(finder.fetches) |-> finder.fetches[i].id]
                 = get_trending_coins(provider)
          /\ \A processed \in SUBSET FinderIds :
                 LET other == find_trending_gems(provider, DefaultCriteria,
                                                 processed)
                 IN  other.gems = finder.gems /\ other.processed = processed
    /\ (finder.op = "comprehensive_scan" /\ finder.outcome = "returned") =>
          /\ find_trending_gems(provider, DefaultCriteria, {}).processed = {}
          /\ FetchedAs("trending")
                 = {get_trending_coins(provider)[i] :
                        i \in 1..Len(get_trending_coins(provider))}
          /\ PairwiseDistinctIds(finder.gems)
          /\ \A coin_id \in ReturnedBefore("trending") :
                 Cardinality({i \in 1..Len(finder.gems) :
                                 finder.gems[i].id = coin_id}) = 1

\* A comprehensive scan in which a coin is fetched and returned by the
\* trending strategy and again by a later strategy: the concatenated list
\* holds the id twice and the scan result once.
C29_Witness ==
    /\ finder.op = "comprehensive_scan"
    /\ finder.outcome = "returned"
    /\ \E coin_id \in FinderIds, source \in {"new_listing", "volume_surge",
                                             "social_buzz"} :
          /\ coin_id \in FetchedAs("trending") \cap FetchedAs(source)
          /\ coin_id \in ReturnedBefore("trending") \cap ReturnedBefore(source)
          /\ Cardinality({i \in 1..Len(finder.gems) :
                             finder.gems[i].id = coin_id}) = 1
    /\ ~PairwiseDistinctIds(StrategiesFromEmpty.gems)

\* C30 as stated: in every returned breakdown the grade and the
\* recommendation are the ladders applied to the reported, two-decimal
\* risk_adjusted_score and the reported risk_score.
C30_LaddersOfReportedScore ==
    breakdown.outcome = "returned" =>
        /\ breakdown.grade = _score_to_grade(breakdown.risk_adjusted_score, 100)
        /\ breakdown.recommendation =
               _score_to_recommendation(breakdown.risk_adjusted_score, 100,
                                        breakdown.risk_score \div 100)

=============================================================================
